---- MODULE Spec2Model ----
(***************************************************************************)
(* Model of the risk-modelling and route-scoring engine of SafeSteps       *)
(* (src/app3.py, class EnhancedCrimeAwareRouter).                          *)
(*                                                                         *)
(* Fixed-point conventions (Python floats become scaled integers):         *)
(*   coordinates, lengths, radii : units of 1e-5 degree, the integers the  *)
(*                                 polyline decoder accumulates before it  *)
(*                                 divides by 100000.0                     *)
(*   crime weights, multipliers  : tenths  (6.5 -> 65, 1.8 -> 18)          *)
(*   densities                   : tenths                                  *)
(*   risks                       : units of 1e-4, so that                  *)
(*                                 density * weight * time * day           *)
(*                                 is an exact integer product and the     *)
(*                                 threshold 1e-4 is the integer 1         *)
(*   violence_ratio              : per mille                               *)
(*   jitter                      : per cent (0.8 -> 80)                    *)
(* A Python call either returns or raises: Ok(v) / Raised(e).              *)
(***************************************************************************)
EXTENDS Integers, Sequences, FiniteSets, TLC

VARIABLES
    districts,       \* self.districts: name -> geometry, crime_heatmaps, ...
    crime_data,      \* self.crime_data: name -> crime type -> count
    crime_stats,     \* self.crime_stats: name -> aggregate statistics
    crime_hotspots,  \* self.crime_hotspots: name -> list of hotspots
    op,              \* the call in progress, "idle" between calls
    args,            \* its arguments
    ret,             \* what it returned or raised
    rng,             \* state of numpy's global generator (np.random)
    jitter,          \* concurrent callers of the jitter function: position,
                     \* coordinate and the value drawn
    build            \* position of a build of the analysis products

vars == <<districts, crime_data, crime_stats, crime_hotspots, op, args, ret,
          rng, jitter, build>>

\* F applied to the value of v: v is evaluated once, however often F uses it
Bind(v, F(_)) == CHOOSE y \in { F(w) : w \in {v} } : TRUE

None == "None"

Ok(v) == [status |-> "ok", value |-> v]

Raised(e) == [status |-> "raised", value |-> e]

\* dict.get(k, default)
Get(d, k, default) == IF k \in DOMAIN d THEN d[k] ELSE default

Max(a, b) == IF a >= b THEN a ELSE b

Min(a, b) == IF a <= b THEN a ELSE b

RECURSIVE SqrtSearch(_, _, _)
SqrtSearch(n, lo, hi) ==
    IF lo >= hi THEN lo
    ELSE Bind((lo + hi + 1) \div 2, LAMBDA mid :
            IF mid * mid <= n THEN SqrtSearch(n, mid, hi)
            ELSE SqrtSearch(n, lo, mid - 1))

\* floor of the square root (math.sqrt / np.sqrt in fixed point)
ISqrt(n) == Bind(n, LAMBDA v : SqrtSearch(v, 0, Min(v, 46340)))

RECURSIVE SumFrom(_, _)
SumFrom(q, i) == IF i > Len(q) THEN 0 ELSE q[i] + SumFrom(q, i + 1)

SumSeq(s) == Bind(s, LAMBDA q : SumFrom(q, 1))

(***************************************************************************)
(* Static configuration set in __init__                                    *)
(***************************************************************************)
crime_weights ==
    ( "MURDER" :> 100 @@ "ATTEMPT TO MURDER" :> 85 @@ "RAPE" :> 90
   @@ "DACOITY" :> 75 @@ "ROBBERY" :> 65 @@ "BURGLARY-DAY" :> 40
   @@ "BURGLARY-NIGHT" :> 55 @@ "THEFT" :> 30 @@ "MOLESTATION" :> 70
   @@ "FATAL MOTOR ACCIDENTS" :> 45 @@ "NON-FATAL MOTOR ACCIDENTS" :> 20
   @@ "CYBER CRIME" :> 15 @@ "POCSO" :> 80 @@ "POCSO RAPE" :> 95 )

CrimeTypes == DOMAIN crime_weights

\* iteration order of the dict self.crime_weights
CrimeTypeOrder ==
    << "MURDER", "ATTEMPT TO MURDER", "RAPE", "DACOITY", "ROBBERY", "BURGLARY-DAY",
       "BURGLARY-NIGHT", "THEFT", "MOLESTATION", "FATAL MOTOR ACCIDENTS",
       "NON-FATAL MOTOR ACCIDENTS", "CYBER CRIME", "POCSO", "POCSO RAPE" >>

time_multipliers ==
    ( "early_morning" :> ("BURGLARY-NIGHT" :> 20 @@ "THEFT" :> 18 @@ "ROBBERY" :> 16)
   @@ "morning"    :> ("THEFT" :> 7 @@ "BURGLARY-DAY" :> 12 @@ "FATAL MOTOR ACCIDENTS" :> 13)
   @@ "midday"     :> ("THEFT" :> 8 @@ "BURGLARY-DAY" :> 15 @@ "CYBER CRIME" :> 12)
   @@ "afternoon"  :> ("THEFT" :> 11 @@ "ROBBERY" :> 9 @@ "FATAL MOTOR ACCIDENTS" :> 14)
   @@ "evening"    :> ("THEFT" :> 13 @@ "ROBBERY" :> 14 @@ "MOLESTATION" :> 16)
   @@ "night"      :> ("BURGLARY-NIGHT" :> 22 @@ "ROBBERY" :> 18 @@ "MOLESTATION" :> 20
                       @@ "MURDER" :> 15)
   @@ "late_night" :> ("BURGLARY-NIGHT" :> 25 @@ "MURDER" :> 18 @@ "ROBBERY" :> 20) )

TimePeriods == DOMAIN time_multipliers

day_multipliers ==
    ( "weekday" :> ("BURGLARY-DAY" :> 12 @@ "CYBER CRIME" :> 11)
   @@ "weekend" :> ("ROBBERY" :> 13 @@ "THEFT" :> 12 @@ "MOLESTATION" :> 14) )

\* the empty dict
EmptyDict == [k \in {} |-> 0]

(***************************************************************************)
(* _get_time_period                                                        *)
(***************************************************************************)
\* The chained comparison 22 <= hour < 2 is kept as written.
_get_time_period(hour) ==
    IF 4 <= hour /\ hour < 6 THEN "early_morning"
    ELSE IF 6 <= hour /\ hour < 10 THEN "morning"
    ELSE IF 10 <= hour /\ hour < 14 THEN "midday"
    ELSE IF 14 <= hour /\ hour < 18 THEN "afternoon"
    ELSE IF 18 <= hour /\ hour < 22 THEN "evening"
    ELSE IF 22 <= hour /\ hour < 2 THEN "night"
    ELSE "late_night"

(***************************************************************************)
(* The loaded data set and the analysis products built from it in __init__ *)
(* A polygon is an axis-parallel rectangle in the GeoJSON frame            *)
(* (x = longitude, y = latitude).                                          *)
(***************************************************************************)
Rect(minx, miny, maxx, maxy) == [minx |-> minx, miny |-> miny, maxx |-> maxx, maxy |-> maxy]

\* shapely: polygon.contains(Point(x, y)) is true for interior points only
Contains(polygon, x, y) ==
    /\ polygon.minx < x /\ x < polygon.maxx
    /\ polygon.miny < y /\ y < polygon.maxy

\* shapely: Point(a).distance(Point(b)), squared
Dist2(ax, ay, bx, by) == (ax - bx) * (ax - bx) + (ay - by) * (ay - by)

\* iteration order of the dict self.districts (order of the GeoJSON features)
DistrictOrder == <<"Kolar", "Mandya", "Udupi">>

\* rows of the crime table after name matching; every catalogued crime type
\* gets an entry, 0 when the cell is missing
CrimeRow(nonzero) == [ct \in CrimeTypes |-> Get(nonzero, ct, 0)]

LoadedCrimeData ==
    ( "Kolar"  :> CrimeRow("MURDER" :> 2 @@ "THEFT" :> 6 @@ "BURGLARY-DAY" :> 4)
   @@ "Mandya" :> CrimeRow(EmptyDict) )

\* A fitted KernelDensity: the incident points it was fitted to and its bandwidth.
KDE(locations, bandwidth) == [locations |-> locations, bandwidth |-> bandwidth]

\* np.exp(kde.score_samples([[x, y]]))[0], in tenths: the share of the fitted
\* points within one bandwidth of the query (a box kernel stands for the
\* Gaussian one; the estimate is non-negative and 0 far from every incident).
Density(kde, x, y) ==
    LET near == { i \in DOMAIN kde.locations :
                    /\ kde.locations[i][1] - x <= kde.bandwidth
                    /\ x - kde.locations[i][1] <= kde.bandwidth
                    /\ kde.locations[i][2] - y <= kde.bandwidth
                    /\ y - kde.locations[i][2] <= kde.bandwidth }
    IN  (10 * Cardinality(near)) \div Len(kde.locations)

\* the KDE bandwidth without the lower clamp
Bandwidth_NoFloor(n_points) == Min(2000, ISqrt(100000000 \div n_points))

\* line 230: max(0.005, min(0.02, 0.1 / np.sqrt(n_points))), in units of 1e-5
\* degree; 0.1 / sqrt(n) is the root of 1e-2 / n
Bandwidth(n_points) == Max(500, Min(2000, ISqrt(100000000 \div n_points)))

KolarLocations ==
    ( "MURDER"       :> << <<1000, 3000>>, <<1200, 3100>> >>
   @@ "THEFT"        :> << <<900, 2900>>, <<1000, 3000>>, <<1100, 3000>>,
                           <<1000, 3200>>, <<800, 3000>>, <<1000, 2800>> >>
   @@ "BURGLARY-DAY" :> << <<1000, 3000>>, <<1100, 3100>>, <<3000, 1000>>, <<1000, 2900>> >> )

LoadedDistricts ==
    ( "Kolar"  :> [ geometry |-> Rect(0, 0, 4000, 4000),
                    area |-> 1600,
                    crime_locations |-> [ct \in CrimeTypes |-> Get(KolarLocations, ct, <<>>)],
                    crime_heatmaps |->
                        [ct \in DOMAIN KolarLocations |->
                            KDE(KolarLocations[ct], Bandwidth(Len(KolarLocations[ct])))] ]
   @@ "Mandya" :> [ geometry |-> Rect(4000, 0, 8000, 4000),
                    area |-> 1600,
                    crime_locations |-> [ct \in CrimeTypes |-> <<>>],
                    crime_heatmaps |-> EmptyDict ]
   @@ "Udupi"  :> [ geometry |-> Rect(0, 4000, 4000, 8000),
                    area |-> 1600 ] )

ViolentCrimes == {"MURDER", "ATTEMPT TO MURDER", "RAPE", "ROBBERY", "MOLESTATION"}

PropertyCrimes == {"BURGLARY-DAY", "BURGLARY-NIGHT", "THEFT"}

RECURSIVE SumKeys(_, _)
SumKeys(f, S) ==
    IF S = {} THEN 0
    ELSE Bind(CHOOSE k \in S : TRUE, LAMBDA k :
            f[k] + Bind(S \ {k}, LAMBDA rest : SumKeys(f, rest)))

\* sum(f[k] for k in S)
SumOver(f, S) == Bind(<<f, S>>, LAMBDA a : SumKeys(a[1], a[2]))

\* the analysis with the violent crimes set against the property crimes
_analyze_crime_patterns_PerPropertyCrime(data, regions) ==
    [ d \in DOMAIN data |->
        LET crimes == data[d]
            total_crimes == SumOver(crimes, DOMAIN crimes)
            violent_crimes == SumOver([ct \in ViolentCrimes |-> Get(crimes, ct, 0)], ViolentCrimes)
            property_crimes == SumOver([ct \in PropertyCrimes |-> Get(crimes, ct, 0)], PropertyCrimes)
        IN  [ total_crimes |-> total_crimes,
              violent_crimes |-> violent_crimes,
              property_crimes |-> property_crimes,
              crime_rate |-> IF regions[d].area > 0
                             THEN (1000 * total_crimes) \div regions[d].area ELSE 0,
              violence_ratio |-> IF total_crimes > 0
                                 THEN (1000 * violent_crimes) \div Max(1, property_crimes)
                                 ELSE 0 ] ]

\* violence_ratio in per mille, crime_rate in crimes per 1e-3 square degree
\* (area is held in units of 1e-6 square degree)
_analyze_crime_patterns(data, regions) ==
    [ d \in DOMAIN data |->
        LET crimes == data[d]
            total_crimes == SumOver(crimes, DOMAIN crimes)
            violent_crimes == SumOver([ct \in ViolentCrimes |-> Get(crimes, ct, 0)], ViolentCrimes)
            property_crimes == SumOver([ct \in PropertyCrimes |-> Get(crimes, ct, 0)], PropertyCrimes)
        IN  [ total_crimes |-> total_crimes,
              violent_crimes |-> violent_crimes,
              property_crimes |-> property_crimes,
              crime_rate |-> IF regions[d].area > 0
                             THEN (1000 * total_crimes) \div regions[d].area ELSE 0,
              violence_ratio |-> IF total_crimes > 0
                                 THEN (1000 * violent_crimes) \div total_crimes ELSE 0 ] ]

(***************************************************************************)
(* _load_crime_data                                                        *)
(* Names are sequences of characters.  A cell of the table is a number, a  *)
(* text that is no number, blank, or absent (the table has no such         *)
(* column).                                                                *)
(***************************************************************************)
\* the keys of self.districts, as characters
RegionChars ==
    ( "Kolar"  :> <<"K", "o", "l", "a", "r">>
   @@ "Mandya" :> <<"M", "a", "n", "d", "y", "a">>
   @@ "Udupi"  :> <<"U", "d", "u", "p", "i">> )

\* str.lower
Lower(str) ==
    LET lower == ( "A" :> "a" @@ "C" :> "c" @@ "D" :> "d" @@ "K" :> "k" @@ "M" :> "m"
                @@ "N" :> "n" @@ "R" :> "r" @@ "U" :> "u" @@ "Y" :> "y" )
    IN  [i \in DOMAIN str |-> Get(lower, str[i], str[i])]

\* str.replace(old, ''): the occurrences of old, from the left, removed
RECURSIVE Remove(_, _)
Remove(str, old) ==
    IF Len(str) < Len(old) THEN str
    ELSE IF SubSeq(str, 1, Len(old)) = old
         THEN Remove(SubSeq(str, Len(old) + 1, Len(str)), old)
         ELSE <<str[1]>> \o Remove(Tail(str), old)

\* lines 136-141: the four replacements, then strip()
CleanName(district_raw) ==
    Bind(Remove(Remove(Remove(Remove(district_raw,
                <<" ", "C", "i", "t", "y">>),
                <<" ", "D", "i", "s", "t">>),
                <<"C", "o", "m", "m", "i", "s", "s", "i", "o", "n", "e", "r", "a", "t", "e", "s">>),
                <<"R", "a", "n", "g", "e">>),
         LAMBDA str :
            LET inked == { i \in DOMAIN str : str[i] # " " }
            IN  IF inked = {} THEN <<>>
                ELSE SubSeq(str, CHOOSE i \in inked : \A j \in inked : i <= j,
                                 CHOOSE i \in inked : \A j \in inked : i >= j))

\* a in b, for strings
IsIn(a, b) ==
    \E k \in 0 .. Len(b) - Len(a) : SubSeq(b, k + 1, k + Len(a)) = a

\* the match when only a record name held by the region name counts
RECURSIVE MatchedDistrict_RecordInRegion(_, _)
MatchedDistrict_RecordInRegion(district, k) ==
    IF k > Len(DistrictOrder) THEN None
    ELSE IF IsIn(Lower(district), Lower(RegionChars[DistrictOrder[k]]))
         THEN DistrictOrder[k]
         ELSE MatchedDistrict_RecordInRegion(district, k + 1)

\* lines 148-153: the first key of self.districts, from the k-th, that
\* matches, or None
RECURSIVE MatchedDistrict(_, _)
MatchedDistrict(district, k) ==
    IF k > Len(DistrictOrder) THEN None
    ELSE IF \/ IsIn(Lower(district), Lower(RegionChars[DistrictOrder[k]]))
            \/ IsIn(Lower(RegionChars[DistrictOrder[k]]), Lower(district))
         THEN DistrictOrder[k]
         ELSE MatchedDistrict(district, k + 1)

\* the count stored without the clamp at 0
StoredCount_Unclamped(cell) ==
    IF cell.kind = "number" THEN cell.value ELSE 0

\* lines 165-169: max(0, pd.to_numeric(row.get(col_name, 0), errors='coerce') or 0);
\* a text or a blank cell becomes NaN, and max(0, NaN) is 0
StoredCount(cell) ==
    IF cell.kind = "number" THEN Max(0, cell.value) ELSE 0

\* lines 132-169: the rows of the table from the k-th, laid over crime_data
RECURSIVE LoadRows(_, _, _)
LoadRows(rows, k, loaded) ==
    IF k > Len(rows) THEN loaded
    ELSE Bind(CleanName(rows[k].district_raw), LAMBDA district :
            IF \/ district \in { <<>>, <<"n", "a", "n">> }
               \/ \A i \in DOMAIN district : district[i] \in {"0", "1", "2"}
            THEN LoadRows(rows, k + 1, loaded)
            ELSE Bind(MatchedDistrict(district, 1), LAMBDA matched_district :
                    IF matched_district = None THEN LoadRows(rows, k + 1, loaded)
                    ELSE LoadRows(rows, k + 1,
                            (matched_district :>
                                [ct \in CrimeTypes |-> StoredCount(rows[k].cells[ct])])
                            @@ loaded)))

_load_crime_data(rows) == LoadRows(rows, 1, EmptyDict)

(***************************************************************************)
(* _identify_crime_hotspots                                                *)
(* Weights and intensities are in tenths.  StandardScaler divides each     *)
(* axis by its population standard deviation (by 1 when that is 0); the    *)
(* variances are taken over coordinates in units of 1e-4 degree.           *)
(***************************************************************************)
\* all_locations with crime_weights, pooled over the crime types from the k-th
RECURSIVE Pool(_, _)
Pool(crime_locations, k) ==
    IF k > Len(CrimeTypeOrder) THEN <<>>
    ELSE Bind(CrimeTypeOrder[k], LAMBDA ct :
            [ i \in 1 .. Len(Get(crime_locations, ct, <<>>)) |->
                [loc |-> crime_locations[ct][i], weight |-> Get(crime_weights, ct, 10)] ])
         \o Pool(crime_locations, k + 1)

\* the variance of one axis of the pooled points
AxisVariance(pooled, axis) ==
    Bind([i \in DOMAIN pooled |-> pooled[i].loc[axis] \div 10], LAMBDA u :
        (Len(u) * SumSeq([i \in DOMAIN u |-> u[i] * u[i]]) - SumSeq(u) * SumSeq(u))
            \div (Len(u) * Len(u)))

\* the squared distance of two scaled points, in units of 1e-2
ScaledDist2(a, b, variance) ==
    LET term(axis) ==
            IF variance[axis] = 0 THEN 0
            ELSE (100 * ((a[axis] - b[axis]) \div 10) * ((a[axis] - b[axis]) \div 10))
                     \div variance[axis]
    IN  term(1) + term(2)

\* the core points density-reachable from the core points in `found`
RECURSIVE Grow(_, _, _)
Grow(found, core, adjacent) ==
    Bind(found \cup { j \in core : \E i \in found : j \in adjacent[i] }, LAMBDA more :
        IF more = found THEN found ELSE Grow(more, core, adjacent))

\* lines 376-390: centre, intensity, radius and size of the cluster `members`
HotspotOf(pooled, members) ==
    Bind(SumOver([i \in DOMAIN pooled |-> pooled[i].weight], members), LAMBDA intensity :
    Bind(<< SumOver([i \in DOMAIN pooled |-> pooled[i].weight * pooled[i].loc[1]], members)
                \div intensity,
            SumOver([i \in DOMAIN pooled |-> pooled[i].weight * pooled[i].loc[2]], members)
                \div intensity >>, LAMBDA center :
        [ center |-> center,
          intensity |-> intensity,
          radius |-> ISqrt(CHOOSE m \in { Dist2(center[1], center[2],
                                                pooled[i].loc[1], pooled[i].loc[2]) : i \in members } :
                               \A i \in members :
                                   Dist2(center[1], center[2],
                                         pooled[i].loc[1], pooled[i].loc[2]) <= m),
          crime_count |-> Cardinality(members) ]))

\* the labels with that of the noise points among them
ClusterIds_WithNoise(label) == { label[i] : i \in DOMAIN label }

\* lines 372-374: set(clustering.labels_) without the label of the noise
\* points (0 here, -1 in the source)
ClusterIds(label) == { label[i] : i \in DOMAIN label } \ {0}

\* lines 365-392: DBSCAN(eps=0.5, min_samples=3) with sample weights, then the
\* clusters, in label order, sorted by intensity, highest first.  A point is
\* a core point when the weights within eps of it sum to 3.0; a cluster is
\* labelled by its first core point; a border point joins the first cluster
\* that reaches it.
Hotspots(pooled) ==
    IF pooled = <<>> THEN <<>> ELSE
    Bind(<<AxisVariance(pooled, 1), AxisVariance(pooled, 2)>>, LAMBDA variance :
    Bind([ i \in DOMAIN pooled |->
             { j \in DOMAIN pooled :
                 ScaledDist2(pooled[i].loc, pooled[j].loc, variance) <= 25 } ],
         LAMBDA adjacent :
    Bind({ i \in DOMAIN pooled :
             SumOver([j \in DOMAIN pooled |-> pooled[j].weight], adjacent[i]) >= 30 },
         LAMBDA core :
    Bind([ i \in core |-> CHOOSE r \in Grow({i}, core, adjacent) :
                              \A q \in Grow({i}, core, adjacent) : r <= q ],
         LAMBDA root :
    Bind([ i \in DOMAIN pooled |->
             IF i \in core THEN root[i]
             ELSE IF adjacent[i] \cap core = {} THEN 0
             ELSE CHOOSE r \in { root[c] : c \in adjacent[i] \cap core } :
                      \A c \in adjacent[i] \cap core : r <= root[c] ],
         LAMBDA label :
    Bind([ r \in ClusterIds(label) |->
             HotspotOf(pooled, { i \in DOMAIN pooled : label[i] = r }) ],
         LAMBDA hotspot :
        [ position \in 1 .. Cardinality(DOMAIN hotspot) |->
            hotspot[CHOOSE r \in DOMAIN hotspot :
                        Cardinality({ q \in DOMAIN hotspot :
                            \/ hotspot[q].intensity > hotspot[r].intensity
                            \/ /\ hotspot[q].intensity = hotspot[r].intensity
                               /\ q < r }) = position - 1] ]))))))

\* the detector without the minimum of 5 pooled incident points
_identify_crime_hotspots_NoMinimum(data) ==
    [ d \in { d \in DOMAIN data : "crime_locations" \in DOMAIN data[d] } |->
        Hotspots(Pool(data[d].crime_locations, 1)) ]

\* self.crime_hotspots after _identify_crime_hotspots when self.districts = data
_identify_crime_hotspots(data) ==
    [ d \in { d \in DOMAIN data :
                /\ "crime_locations" \in DOMAIN data[d]
                /\ Len(Pool(data[d].crime_locations, 1)) >= 5 } |->
        Hotspots(Pool(data[d].crime_locations, 1)) ]

\* the hotspots of the loaded districts
BuiltHotspots == _identify_crime_hotspots(LoadedDistricts)

(***************************************************************************)
(* _generate_synthetic_crime_locations and _generate_crime_pattern         *)
(* The random outcomes of one call are its `draws`: for a cluster, the     *)
(* index of the centre (np.random.randint), the Poisson sample and the     *)
(* offset added to the centre (np.random.normal; one per cluster here).    *)
(* Cluster k of a call takes draws[k mod len(draws)].                      *)
(***************************************************************************)
\* new_point within [np.min, np.max] of the valid points, on both axes
InBounds(valid_points, new_point) ==
    LET xs == { valid_points[i][1] : i \in DOMAIN valid_points }
        ys == { valid_points[i][2] : i \in DOMAIN valid_points }
    IN  /\ \E x \in xs : new_point[1] >= x
        /\ \E x \in xs : new_point[1] <= x
        /\ \E y \in ys : new_point[2] >= y
        /\ \E y \in ys : new_point[2] <= y

\* the points one cluster appends when `room` = count - len(locations)
ClusterPoints(valid_points, draw, room, points_per_cluster) ==
    LET cluster_size == points_per_cluster + draw.poisson
        new_point == << valid_points[draw.center][1] + draw.offset[1],
                        valid_points[draw.center][2] + draw.offset[2] >>
    IN  IF InBounds(valid_points, new_point)
        THEN [i \in 1 .. Min(cluster_size, room) |-> new_point]
        ELSE <<>>

\* for cluster_idx in range(n_clusters), left when len(locations) >= count
RECURSIVE PatternLoop(_, _, _, _, _, _, _)
PatternLoop(valid_points, count, n_clusters, points_per_cluster, cluster_idx, draws, locations) ==
    IF cluster_idx >= n_clusters \/ (cluster_idx > 0 /\ Len(locations) >= count)
    THEN locations
    ELSE Bind(<< cluster_idx + 1,
                 locations \o ClusterPoints(valid_points,
                                            draws[(cluster_idx % Len(draws)) + 1],
                                            count - Len(locations), points_per_cluster) >>,
              LAMBDA a : PatternLoop(valid_points, count, n_clusters, points_per_cluster,
                                     a[1], draws, a[2]))

\* pattern and is_urban choose the spread of the offsets, which `draws` holds
_generate_crime_pattern(valid_points, count, n_clusters, pattern, is_urban, draws) ==
    IF Len(valid_points) = 0 \/ count <= 0 THEN <<>>
    ELSE PatternLoop(valid_points, count, n_clusters, Max(1, count \div n_clusters),
                     0, draws, <<>>)

\* lines 262-273: number of clusters and pattern by crime type
ClusterPlan(crime_type, count) ==
    IF crime_type \in {"THEFT", "BURGLARY-DAY", "CYBER CRIME"}
    THEN [n_clusters |-> Max(1, Min(5, count \div 10)), pattern |-> "clustered"]
    ELSE IF crime_type \in {"MURDER", "RAPE", "DACOITY"}
    THEN [n_clusters |-> Max(1, Min(3, count \div 15)), pattern |-> "semi_random"]
    ELSE [n_clusters |-> Max(1, Min(4, count \div 12)), pattern |-> "mixed"]

\* lines 253-276: the list of one crime type
TypeLocations(crime_type, count, valid_points, is_urban, draws) ==
    IF count = 0 THEN <<>>
    ELSE Bind(ClusterPlan(crime_type, count), LAMBDA plan :
            _generate_crime_pattern(valid_points, count, plan.n_clusters, plan.pattern,
                                    is_urban, draws))

\* crimes is self.crime_data[district]
_generate_synthetic_crime_locations(crimes, is_urban, valid_points, draws) ==
    Bind([ ct \in DOMAIN crimes |->
             TypeLocations(ct, crimes[ct], valid_points, is_urban, draws) ],
         LAMBDA crime_locations :
            IF SumOver(crimes, DOMAIN crimes) > 500
            THEN Bind(_generate_crime_pattern(valid_points, 30, 2, "clustered", TRUE, draws),
                      LAMBDA extra_points :
                        [ ct \in DOMAIN crime_locations |->
                            crime_locations[ct] \o extra_points ])
            ELSE crime_locations)

(***************************************************************************)
(* _pseudo_spatial_noise and _get_enhanced_location_risk_score             *)
(* A point is the pair the caller passes: <<point[0], point[1]>>; route    *)
(* code passes (latitude, longitude).                                      *)
(***************************************************************************)
\* round(c, 4): the nearest multiple of 1e-4 degree
Round4(c) == ((c + 5) \div 10) * 10

\* the states of the generator, abstracted to a cycle of 80
RngStates == 0 .. 79

\* seed = int(md5(key).hexdigest()[:8], 16): the digest of the rounded
\* coordinate is abstracted to a fixed mixing of the two keys
NoiseSeed(point) ==
    7 * (Round4(point[1]) \div 10) + 13 * (Round4(point[2]) \div 10)

\* np.random.seed(seed): the state the global generator is left in
Seeded(seed) == seed % Cardinality(RngStates)

\* the next state of the generator after one draw
Advance(state) == (5 * state + 7) % Cardinality(RngStates)

\* np.random.uniform(0.8, 1.2) drawn in the given state, in per cent, in [80, 120)
RandomUniform(state) == 80 + (state % 40)

\* The jitter when nothing runs between its two statements:
\* np.random.seed(seed); return np.random.uniform(0.8, 1.2)
_pseudo_spatial_noise(point) == RandomUniform(Seeded(NoiseSeed(point)))

\* Whether self._pseudo_spatial_noise resolves: the class body defines no such
\* attribute; the only definition is a module-level function inside the
\* second `if __name__ == "__main__":` block.
RouterHasPseudoSpatialNoise == FALSE

RECURSIVE FirstContaining(_, _, _)
FirstContaining(point, regions, i) ==
    IF i > Len(DistrictOrder) THEN None
    ELSE IF Contains(regions[DistrictOrder[i]].geometry, point[1], point[2])
         THEN DistrictOrder[i]
         ELSE FirstContaining(point, regions, i + 1)

\* a lookup that falls back to the first region when none contains the point
ContainingDistrict_DefaultFirst(point, regions) ==
    Bind(FirstContaining(point, regions, 1), LAMBDA d :
        IF d = None THEN DistrictOrder[1] ELSE d)

\* for district, data in self.districts.items(): if contains: break
ContainingDistrict(point, regions) ==
    Bind(point, LAMBDA p : FirstContaining(p, regions, 1))

\* the loop over crime_heatmaps: density at (point[1], point[0]) times weight
\* times the time and day multipliers, summed
DensityRisk(point, heatmaps, time_period, day_type) ==
    SumOver([ ct \in DOMAIN heatmaps |->
                Density(heatmaps[ct], point[2], point[1]) * crime_weights[ct]
                  * Get(Get(time_multipliers, time_period, EmptyDict), ct, 10)
                  * Get(Get(day_multipliers, day_type, EmptyDict), ct, 10) ],
            DOMAIN heatmaps)

\* the proximity term taken for every hotspot, near or far
HotspotContribution_NoDistanceTest(point, hotspot) ==
    (hotspot.intensity * 100
        * (hotspot.radius - ISqrt(Dist2(point[1], point[2],
                                        hotspot.center[1], hotspot.center[2]))))
        \div Max(1, hotspot.radius)

\* one hotspot: intensity * (1 - distance / radius) * 0.1 when distance < radius
HotspotContribution(point, hotspot) ==
    Bind(Dist2(point[1], point[2], hotspot.center[1], hotspot.center[2]), LAMBDA d2 :
        IF d2 < hotspot.radius * hotspot.radius
        THEN (hotspot.intensity * 100 * (hotspot.radius - ISqrt(d2))) \div hotspot.radius
        ELSE 0)

HotspotRisk(point, hotspots) ==
    SumSeq([i \in DOMAIN hotspots |-> HotspotContribution(point, hotspots[i])])

\* lines 455-462: the fallback, the district factor and the jitter
FinishRisk(point, total_risk, violence_ratio) ==
    IF ~RouterHasPseudoSpatialNoise THEN Raised("AttributeError")
    ELSE Bind(<<_pseudo_spatial_noise(point), total_risk>>, LAMBDA a :
            LET noise == a[1]
                risk == IF a[2] < 1 THEN noise * 50 + 3000 ELSE a[2]
            IN  Ok((((risk * (2000 + violence_ratio)) \div 2000) * noise) \div 100))

\* lines 431-462, once the containing district is known to have crime data
RiskInDistrict(point, datetime_obj, containing_district) ==
    LET time_period == _get_time_period(datetime_obj.hour)
        day_type == IF datetime_obj.weekday >= 5 THEN "weekend" ELSE "weekday"
        district_data == districts[containing_district]
        total_risk ==
            DensityRisk(point, Get(district_data, "crime_heatmaps", EmptyDict),
                        time_period, day_type)
            + HotspotRisk(point, Get(crime_hotspots, containing_district, <<>>))
        district_stats == Get(crime_stats, containing_district, EmptyDict)
    IN  FinishRisk(point, total_risk, Get(district_stats, "violence_ratio", 0))

_get_enhanced_location_risk_score(point, datetime_obj) ==
    Bind(<<point, ContainingDistrict(point, districts)>>, LAMBDA a :
        IF a[2] = None \/ a[2] \notin DOMAIN crime_data
        THEN Ok(0)
        ELSE RiskInDistrict(a[1], datetime_obj, a[2]))

(***************************************************************************)
(* _decode_polyline.  A polyline string is the sequence of its characters' *)
(* codes minus 63 (`byte` in the source); the characters of the encoding   *)
(* are '?' .. '~', bytes 0 .. 63.                                          *)
(***************************************************************************)
RECURSIVE Pow2(_)
Pow2(n) == IF n = 0 THEN 1 ELSE 2 * Pow2(n - 1)

\* the inner `while True`: one value; stops at the end of the string or after
\* a byte below 0x20.  The chunks occupy disjoint bits, so |= is +.
RECURSIVE ReadChunks(_, _, _, _)
ReadChunks(polyline_str, index, shift, result) ==
    IF index > Len(polyline_str) THEN [result |-> result, index |-> index]
    ELSE Bind(<<polyline_str[index], index + 1, shift + 5>>, LAMBDA a :
            Bind(result + (a[1] % 32) * Pow2(shift), LAMBDA r :
                IF a[1] >= 32 THEN ReadChunks(polyline_str, a[2], a[3], r)
                ELSE [result |-> r, index |-> a[2]]))

\* the change without the sign bit applied
SignedChange_Magnitude(result) == result \div 2

\* ~(result >> 1) if result & 1 else (result >> 1)
SignedChange(result) ==
    IF result % 2 = 1 THEN -(result \div 2) - 1 ELSE result \div 2

\* the loop when the string ends within a point and that point is not kept
RECURSIVE DecodeLoop_WholePointsOnly(_, _, _, _, _)
DecodeLoop_WholePointsOnly(polyline_str, index, lat, lng, coordinates) ==
    IF index > Len(polyline_str) THEN coordinates
    ELSE Bind(ReadChunks(polyline_str, index, 0, 0), LAMBDA a :
         Bind(ReadChunks(polyline_str, a.index, 0, 0), LAMBDA b :
         Bind(<<lat + SignedChange(a.result), lng + SignedChange(b.result)>>, LAMBDA c :
            IF b.index > a.index /\ polyline_str[b.index - 1] < 32
            THEN DecodeLoop_WholePointsOnly(polyline_str, b.index, c[1], c[2],
                                            Append(coordinates, c))
            ELSE coordinates)))

\* the outer `while index < len(polyline_str)`; index is 1-based here
RECURSIVE DecodeLoop(_, _, _, _, _)
DecodeLoop(polyline_str, index, lat, lng, coordinates) ==
    IF index > Len(polyline_str) THEN coordinates
    ELSE Bind(ReadChunks(polyline_str, index, 0, 0), LAMBDA a :
         Bind(ReadChunks(polyline_str, a.index, 0, 0), LAMBDA b :
         Bind(<<lat + SignedChange(a.result), lng + SignedChange(b.result)>>, LAMBDA c :
         Bind(Append(coordinates, c), LAMBDA coordinates2 :
            DecodeLoop(polyline_str, b.index, c[1], c[2], coordinates2)))))

_decode_polyline(polyline_str) ==
    Bind(polyline_str, LAMBDA str : DecodeLoop(str, 1, 0, 0, <<>>))

(***************************************************************************)
(* score_route_enhanced                                                    *)
(***************************************************************************)
\* LineString([start, end]).length
SegmentLength(start_coord, end_coord) ==
    ISqrt(Dist2(start_coord[1], start_coord[2], end_coord[1], end_coord[2]))

\* avg_segment_risk = segment_risk / num_samples
AverageRisk(segment_risk, num_samples) == segment_risk \div num_samples

\* max(3, int(segment_length * 1000)), the length taken in degrees
NumSamples(segment_length) == Max(3, segment_length \div 100)

\* start + t * (end - start) with t = j / (num_samples - 1)
SamplePoint(start_coord, end_coord, j, num_samples) ==
    << start_coord[1] + (j * (end_coord[1] - start_coord[1])) \div (num_samples - 1),
       start_coord[2] + (j * (end_coord[2] - start_coord[2])) \div (num_samples - 1) >>

\* the loop over j: the sum of the point risks; a raise inside the loop is
\* not caught and ends it
RECURSIVE SumSampleRisks(_, _, _, _, _, _)
SumSampleRisks(start_coord, end_coord, j, num_samples, travel_datetime, segment_risk) ==
    IF j >= num_samples THEN Ok(segment_risk)
    ELSE Bind(_get_enhanced_location_risk_score(
                  SamplePoint(start_coord, end_coord, j, num_samples), travel_datetime),
              LAMBDA point_risk :
                IF point_risk.status = "raised" THEN point_risk
                ELSE Bind(<<j + 1, segment_risk + point_risk.value>>, LAMBDA a :
                        SumSampleRisks(start_coord, end_coord, a[1], num_samples,
                                       travel_datetime, a[2])))

\* a weighting that adds the length instead of multiplying by it
WeightedRisk_Sum(avg_segment_risk, segment_length) == avg_segment_risk + segment_length

WeightedRisk(avg_segment_risk, segment_length) == avg_segment_risk * segment_length

\* one pass of the segment loop's body: the segment's score, or the raise
ScoreSegment(start_coord, end_coord, travel_datetime) ==
    Bind(SegmentLength(start_coord, end_coord), LAMBDA segment_length :
    Bind(NumSamples(segment_length), LAMBDA num_samples :
    Bind(SumSampleRisks(start_coord, end_coord, 0, num_samples, travel_datetime, 0),
         LAMBDA segment_risk :
            IF segment_risk.status = "raised" THEN segment_risk
            ELSE Bind(AverageRisk(segment_risk.value, num_samples), LAMBDA avg_segment_risk :
                    Ok([ start |-> start_coord,
                         end |-> end_coord,
                         risk |-> avg_segment_risk,
                         distance |-> segment_length,
                         weighted_risk |-> WeightedRisk(avg_segment_risk, segment_length) ])))))

\* the quotient without the guard: a zero divisor leaves the marker -1
NormalizedRisk_Unguarded(total_risk, total_distance) ==
    IF total_distance = 0 THEN -1 ELSE total_risk \div total_distance

\* total_risk / total_distance if total_distance > 0 else 0
NormalizedRisk(total_risk, total_distance) ==
    IF total_distance > 0 THEN total_risk \div total_distance ELSE 0

\* max(list) of a non-empty list
MaxSeq(s) == Bind(s, LAMBDA q : CHOOSE m \in {q[i] : i \in DOMAIN q} :
                                   \A i \in DOMAIN q : q[i] <= m)

\* np.var: the population variance, in whole units; the risks enter in
\* units of 1e-2
Variance(risks) ==
    Bind([i \in DOMAIN risks |-> risks[i] \div 100], LAMBDA r :
    Bind(<<Len(r), SumSeq(r), SumSeq([i \in DOMAIN r |-> r[i] * r[i]])>>, LAMBDA a :
        ((a[1] * a[3] - a[2] * a[2]) \div (a[1] * a[1])) \div 10000))

\* for i in range(len(coords) - 1), then the aggregation and the return
RECURSIVE ScoreSegments(_, _, _, _, _, _)
ScoreSegments(coords, i, travel_datetime, segment_scores, total_risk, total_distance) ==
    IF i >= Len(coords)
    THEN Bind([k \in DOMAIN segment_scores |-> segment_scores[k].risk], LAMBDA risks :
            Ok([ total_risk |-> total_risk,
                 segment_scores |-> segment_scores,
                 normalized_risk |-> NormalizedRisk(total_risk, total_distance),
                 max_segment_risk |-> IF segment_scores # <<>> THEN MaxSeq(risks) ELSE 0,
                 risk_variance |-> IF Len(segment_scores) > 1 THEN Variance(risks) ELSE 0 ]))
    ELSE Bind(ScoreSegment(coords[i], coords[i + 1], travel_datetime), LAMBDA seg :
            IF seg.status = "raised" THEN seg
            ELSE Bind(<< i + 1, Append(segment_scores, seg.value),
                         total_risk + seg.value.weighted_risk,
                         total_distance + seg.value.distance >>, LAMBDA a :
                    ScoreSegments(coords, a[1], travel_datetime, a[2], a[3], a[4])))

\* the early return for fewer than two coordinates
DegenerateScore == [total_risk |-> 0, segment_scores |-> <<>>, normalized_risk |-> 0]

score_route_enhanced(route, travel_datetime) ==
    Bind(<<_decode_polyline(route.overview_polyline), travel_datetime>>, LAMBDA a :
        IF Len(a[1]) < 2 THEN Ok(DegenerateScore)
        ELSE ScoreSegments(a[1], 1, a[2], <<>>, 0, 0))


(***************************************************************************)
(* _calculate_safety_grade                                                 *)
(* composite score in units of 1e-5: risk_score and max_segment_risk are   *)
(* in units of 1e-4, sqrt(risk_variance) in whole units                    *)
(***************************************************************************)
\* a composite score that credits the spread of the segment risks
CompositeScore_VarianceCredit(route_info) ==
    Bind(6 * route_info.risk_score + 3 * route_info.max_segment_risk
           - 10000 * ISqrt(route_info.risk_variance),
         LAMBDA c : Max(500000, c))

CompositeScore(route_info) ==
    Bind(6 * route_info.risk_score + 3 * route_info.max_segment_risk
           + 10000 * ISqrt(route_info.risk_variance),
         LAMBDA c : Max(500000, c))

\* a cascade whose comparisons include the threshold
GradeOf_Inclusive(composite_score) ==
    IF composite_score <= 1000000 THEN "A+"
    ELSE IF composite_score <= 2000000 THEN "A"
    ELSE IF composite_score <= 3500000 THEN "B+"
    ELSE IF composite_score <= 5000000 THEN "B"
    ELSE IF composite_score <= 7000000 THEN "C+"
    ELSE IF composite_score <= 9000000 THEN "C"
    ELSE IF composite_score <= 12000000 THEN "D"
    ELSE "F"

\* the if/elif cascade over the composite score
GradeOf(composite_score) ==
    IF composite_score < 1000000 THEN "A+"
    ELSE IF composite_score < 2000000 THEN "A"
    ELSE IF composite_score < 3500000 THEN "B+"
    ELSE IF composite_score < 5000000 THEN "B"
    ELSE IF composite_score < 7000000 THEN "C+"
    ELSE IF composite_score < 9000000 THEN "C"
    ELSE IF composite_score < 12000000 THEN "D"
    ELSE "F"

_calculate_safety_grade(route_info) ==
    Bind(CompositeScore(route_info), LAMBDA composite_score : GradeOf(composite_score))

(***************************************************************************)
(* get_enhanced_route_alternatives and _routes_similar                     *)
(* A provider response is the list of routes, or the call raised.          *)
(***************************************************************************)
\* np.linspace(0, n - 1, sample_size, dtype=int), 1-based
LinspaceIndex(i, n, sample_size) ==
    IF sample_size = 1 THEN 1 ELSE 1 + ((i - 1) * (n - 1)) \div (sample_size - 1)

\* raises when a route has no coordinates (cdist of empty arrays)
\* the points np.linspace picks from coords
Sampled(coords, sample_size) ==
    [i \in 1 .. sample_size |-> coords[LinspaceIndex(i, Len(coords), sample_size)]]

_routes_similar(route1, route2) ==
    Bind(<<_decode_polyline(route1.overview_polyline),
           _decode_polyline(route2.overview_polyline)>>, LAMBDA coords :
    Bind(Min(20, Min(Len(coords[1]), Len(coords[2]))), LAMBDA sample_size :
    Bind(<<Sampled(coords[1], sample_size), Sampled(coords[2], sample_size)>>, LAMBDA sampled :
        LET close == { i \in 1 .. sample_size :
                         \E k \in 1 .. sample_size :
                            Dist2(sampled[1][i][1], sampled[1][i][2],
                                  sampled[2][k][1], sampled[2][k][2]) < 1000 * 1000 }
        IN  IF sample_size = 0 THEN Raised("ValueError")
            ELSE Ok(5 * Cardinality(close) > 4 * sample_size))))

\* for existing_route in routes: if similar: is_unique = False; break
RECURSIVE IsUnique(_, _, _)
IsUnique(route, routes, k) ==
    IF k > Len(routes) THEN Ok(TRUE)
    ELSE Bind(_routes_similar(route, routes[k]), LAMBDA sim :
            IF sim.status = "raised" THEN sim
            ELSE IF sim.value THEN Ok(FALSE)
            ELSE IsUnique(route, routes, k + 1))

\* for route in alt_routes: append the unique ones; a raise ends this
\* preference (except: continue) and keeps what was appended
RECURSIVE AddAlternatives(_, _, _)
AddAlternatives(routes, alt_routes, k) ==
    IF k > Len(alt_routes) THEN routes
    ELSE Bind(IsUnique(alt_routes[k], routes, 1), LAMBDA u :
            IF u.status = "raised" THEN routes
            ELSE Bind(IF u.value THEN Append(routes, alt_routes[k]) ELSE routes,
                      LAMBDA routes2 : AddAlternatives(routes2, alt_routes, k + 1)))

Answer(routes) == [ok |-> TRUE, routes |-> routes]

ProviderError == [ok |-> FALSE, routes |-> <<>>]

AddPreference(routes, response) ==
    Bind(routes, LAMBDA r :
        IF ~response.ok THEN r ELSE AddAlternatives(r, response.routes, 1))

max_routes == 5

\* the alternatives when a failed first request is skipped like a failed
\* preference
get_enhanced_route_alternatives_SkipFailure(standard, avoid_highways, avoid_tolls) ==
    Bind(AddPreference(AddPreference(standard.routes, avoid_highways), avoid_tolls),
         LAMBDA routes : SubSeq(routes, 1, Min(max_routes, Len(routes))))

get_enhanced_route_alternatives(standard, avoid_highways, avoid_tolls) ==
    IF ~standard.ok THEN <<>>
    ELSE Bind(AddPreference(AddPreference(standard.routes, avoid_highways), avoid_tolls),
              LAMBDA routes : SubSeq(routes, 1, Min(max_routes, Len(routes))))

(***************************************************************************)
(* recommend_safest_route                                                  *)
(***************************************************************************)
\* f"{x:.1f}" of a risk in units of 1e-4: tenths
Fmt1(x) == (x + 500) \div 1000

safety_desc ==
    ( "A+" :> "excellent" @@ "A" :> "very good" @@ "B+" :> "good" @@ "B" :> "acceptable"
   @@ "C+" :> "fair" @@ "C" :> "concerning" @@ "D" :> "poor" @@ "F" :> "high risk" )

\* the templated text, as the values it is formatted from
_generate_fallback_explanation(route_info, rank) ==
    [ template |-> IF rank = 1 THEN "recommended" ELSE "alternative",
      rank |-> IF rank = 1 THEN 1 ELSE rank,
      grade_desc |-> Get(safety_desc, route_info.safety_grade, "moderate"),
      time_period |-> route_info.time_period,
      risk_score |-> Fmt1(route_info.risk_score),
      distance |-> IF rank = 1 THEN (route_info.distance + 50) \div 100 ELSE 0,
      duration |-> (route_info.duration + 30) \div 60 ]

\* the explanation when a raise of the text service is not handled
_generate_enhanced_ai_explanation_Unhandled(route_info, rank, total_routes, ai_ok) ==
    IF ai_ok THEN [template |-> "ai_text"] ELSE [template |-> "missing"]

\* the text service answers (ai_ok) or raises
_generate_enhanced_ai_explanation(route_info, rank, total_routes, ai_ok) ==
    IF ai_ok THEN [template |-> "ai_text"]
    ELSE _generate_fallback_explanation(route_info, rank)

\* the body of the try block for one candidate: the route_info, or the raise
ScoreCandidate(idx, route, travel_datetime) ==
    Bind(score_route_enhanced(route, travel_datetime), LAMBDA score :
        IF score.status = "raised" THEN score
        ELSE LET score_data == score.value
             IN  IF {"max_segment_risk", "risk_variance"} \subseteq DOMAIN score_data
                 THEN Bind(
                            [ route_id |-> idx,
                              route |-> route,
                              coordinates |-> _decode_polyline(route.overview_polyline),
                              risk_score |-> score_data.normalized_risk,
                              total_risk |-> score_data.total_risk,
                              max_segment_risk |-> score_data.max_segment_risk,
                              risk_variance |-> score_data.risk_variance,
                              distance |-> route.distance,
                              duration |-> route.duration,
                              segment_scores |-> score_data.segment_scores,
                              travel_datetime |-> travel_datetime,
                              time_period |-> _get_time_period(travel_datetime.hour),
                              is_weekend |-> travel_datetime.weekday >= 5 ],
                          LAMBDA info :
                            Ok(info @@ [safety_grade |-> _calculate_safety_grade(info)]))
                 ELSE Raised("KeyError"))

\* the loop when a raise ends it, keeping the routes scored before
RECURSIVE ScoreAll_StopAtFailure(_, _, _, _)
ScoreAll_StopAtFailure(routes, k, travel_datetime, scored_routes) ==
    IF k > Len(routes) THEN scored_routes
    ELSE Bind(ScoreCandidate(k - 1, routes[k], travel_datetime), LAMBDA c :
            IF c.status = "raised" THEN scored_routes
            ELSE ScoreAll_StopAtFailure(routes, k + 1, travel_datetime,
                                        Append(scored_routes, c.value)))

\* for idx, route in enumerate(routes): try ... except: continue
RECURSIVE ScoreAll(_, _, _, _)
ScoreAll(routes, k, travel_datetime, scored_routes) ==
    IF k > Len(routes) THEN scored_routes
    ELSE Bind(ScoreCandidate(k - 1, routes[k], travel_datetime), LAMBDA c :
         Bind(IF c.status = "raised" THEN scored_routes ELSE Append(scored_routes, c.value),
              LAMBDA scored2 : ScoreAll(routes, k + 1, travel_datetime, scored2)))

\* a sort key of the duration alone
KeyLeq_DurationOnly(a, b) == a.duration <= b.duration

\* the sort key (risk_score, duration)
KeyLeq(a, b) ==
    \/ a.risk_score < b.risk_score
    \/ a.risk_score = b.risk_score /\ a.duration <= b.duration

\* list.sort is stable: element i goes behind the elements with a smaller
\* key and behind the earlier elements with an equal key
SortPosition(q, i) ==
    1 + Cardinality({ j \in DOMAIN q :
                        \/ ~KeyLeq(q[i], q[j])
                        \/ j < i /\ KeyLeq(q[j], q[i]) })

SortRoutes(scored_routes) ==
    Bind(scored_routes, LAMBDA q :
        [ p \in DOMAIN q |-> q[CHOOSE i \in DOMAIN q : SortPosition(q, i) = p] ])

\* lines 607-655: scoring, sorting and explaining the candidates
RankRoutes(routes, travel_datetime, ai_ok) ==
    Bind(ScoreAll(routes, 1, travel_datetime, <<>>), LAMBDA scored_routes :
        IF scored_routes = <<>> THEN <<>>
        ELSE Bind(SortRoutes(scored_routes), LAMBDA ranked :
                [ i \in DOMAIN ranked |->
                    ranked[i] @@ [ai_explanation |->
                        _generate_enhanced_ai_explanation(ranked[i], i, Len(ranked), ai_ok)] ]))

recommend_safest_route(standard, avoid_highways, avoid_tolls, travel_datetime, ai_ok) ==
    Bind(get_enhanced_route_alternatives(standard, avoid_highways, avoid_tolls),
         LAMBDA routes :
            IF routes = <<>> THEN <<>> ELSE RankRoutes(routes, travel_datetime, ai_ok))

(***************************************************************************)
(* RouteSafetyInference (src/safescore) and the model object it unpickles. *)
(* Coordinates are in units of 1e-5 degree, risks in units of 1e-4, decay  *)
(* weights per mille, time multipliers in tenths.  An optional argument is *)
(* a sequence: <<>> for None, <<h>> for the value h.  A coordinate of a    *)
(* response is a record whose `isdict` field tells a                       *)
(* {'latitude', 'longitude'} dictionary from a (lat, lon) pair.            *)
(***************************************************************************)
\* the BengaluruRouteSafetyModel loaded from the pickle: its bounds and time
\* multipliers, a few of its generated crime locations and its percentiles
model ==
    [ lat_bounds |-> <<1280000, 1320000>>,
      lon_bounds |-> <<7740000, 7780000>>,
      time_multipliers |-> [h \in 0 .. 23 |-> IF h < 6 THEN 14 ELSE IF h < 9 THEN 8
                                              ELSE IF h < 17 THEN 9 ELSE IF h < 20 THEN 10
                                              ELSE 12],
      crime_locations |-> << [lat |-> 1285000, lon |-> 7760000, weight |-> 10],
                             [lat |-> 1297000, lon |-> 7759000, weight |-> 2],
                             [lat |-> 1297000, lon |-> 7759300, weight |-> 2] >>,
      risk_percentiles |-> <<0, 1000, 4000>> ]

\* np.log1p(x), x and the result in units of 1e-4: the series
\* 2 * (z + z^3/3 + z^5/5 + ...) with z = x / (x + 2), up to its z^7 term
\* (within 4 units for x up to 1)
Log1p(x) ==
    Bind((10000 * x) \div (x + 20000), LAMBDA z :
    Bind((z * z) \div 10000, LAMBDA z2 :
    Bind((z * z2) \div 10000, LAMBDA z3 :
    Bind((z3 * z2) \div 10000, LAMBDA z5 :
    Bind((z5 * z2) \div 10000, LAMBDA z7 :
        2 * (z + (z3 \div 3) + (z5 \div 5) + (z7 \div 7)))))))

\* radius = 0.005 is 500 units; a crime further than the radius along one
\* axis is further than the radius
_calculate_point_risk(lat, lon) ==
    LET crimes == model.crime_locations
        off(a, b) == IF a >= b THEN a - b ELSE b - a
        part(crime) ==
            IF off(crime.lat, lat) >= 500 \/ off(crime.lon, lon) >= 500 THEN 0
            ELSE Bind(ISqrt(Dist2(crime.lat, crime.lon, lat, lon)), LAMBDA distance :
                    IF distance < 500
                    THEN crime.weight * Max(0, 1000 - 2 * distance)
                    ELSE 0)
    IN  Log1p(SumSeq([i \in DOMAIN crimes |-> part(crimes[i])]))

_get_time_adjusted_risk(base_risk, travel_hour) ==
    IF travel_hour = <<>> THEN base_risk
    ELSE IF travel_hour[1] \in DOMAIN model.time_multipliers
         THEN (base_risk * model.time_multipliers[travel_hour[1]]) \div 10
         ELSE base_risk

_categorize_risk(risk_score) ==
    IF risk_score <= model.risk_percentiles[1] THEN "LOW"
    ELSE IF risk_score <= model.risk_percentiles[2] THEN "MEDIUM"
    ELSE IF risk_score <= model.risk_percentiles[3] THEN "MEDIUM-HIGH"
    ELSE "HIGH"

parse_maps_response(maps_response) ==
    LET listed == Get(maps_response, "routes", <<>>)
        formatted(coord) ==
            IF coord.isdict THEN <<coord.latitude, coord.longitude>>
            ELSE <<coord.latitude, coord.longitude>>
    IN  [i \in DOMAIN listed |->
            LET route_data == listed[i]
                coordinates == Get(route_data, "coordinates", <<>>)
            IN  [route_index |-> i - 1,
                 summary |-> Get(route_data, "summary", "Route " \o ToString(i)),
                 distance |-> Get(route_data, "distance", "Unknown"),
                 duration |-> Get(route_data, "duration", "Unknown"),
                 coordinates |-> [k \in DOMAIN coordinates |-> formatted(coordinates[k])]]]

\* <<normalized_risk, total_risk>>; coordinates[::3] are the coordinates at
\* the 1-based positions 1, 4, 7, ...
calculate_route_risk(coordinates, travel_hour) ==
    IF coordinates = <<>> THEN <<0, 0>>
    ELSE LET segment_risk(i) ==
                 IF (i - 1) % 3 # 0 THEN 0
                 ELSE IF /\ model.lat_bounds[1] <= coordinates[i][1]
                         /\ coordinates[i][1] <= model.lat_bounds[2]
                         /\ model.lon_bounds[1] <= coordinates[i][2]
                         /\ coordinates[i][2] <= model.lon_bounds[2]
                      THEN _calculate_point_risk(coordinates[i][1], coordinates[i][2])
                      ELSE 0
         IN  Bind(SumSeq([i \in DOMAIN coordinates |-> segment_risk(i)]), LAMBDA total_risk :
                <<_get_time_adjusted_risk(
                      (10 * total_risk) \div Max(Len(coordinates), 10), travel_hour),
                  total_risk>>)

\* the analysis of one route: risk_score is rounded to 1e-3, total_risk to
\* 1e-2 and safety_score to tenths
RouteAnalysis(route, travel_hour) ==
    Bind(calculate_route_risk(route.coordinates, travel_hour), LAMBDA r :
        [route_index |-> route.route_index,
         summary |-> route.summary,
         distance |-> route.distance,
         duration |-> route.duration,
         risk_score |-> (r[1] + 5) \div 10,
         total_risk |-> (r[2] + 50) \div 100,
         risk_category |-> _categorize_risk(r[1]),
         safety_score |-> (Max(0, 100000 - 2 * r[1]) + 500) \div 1000,
         coordinates |-> route.coordinates,
         is_recommended |-> FALSE])

\* list.sort(key=risk_score): ascending, equal keys keep their order
SortByRisk(route_analyses) ==
    LET before(j, i) ==
            \/ route_analyses[j].risk_score < route_analyses[i].risk_score
            \/ /\ route_analyses[j].risk_score = route_analyses[i].risk_score
               /\ j < i
        place(i) == 1 + Cardinality({ j \in DOMAIN route_analyses : before(j, i) })
    IN  [p \in DOMAIN route_analyses |->
            route_analyses[CHOOSE i \in DOMAIN route_analyses : place(i) = p]]

\* the first analysis marked before the list is sorted
SortAndRecommend_MarkBeforeSort(route_analyses) ==
    SortByRisk([route_analyses EXCEPT ![1].is_recommended = TRUE])

\* the sort, then the mark on the first of the sorted list (of a list that is
\* not empty)
SortAndRecommend(route_analyses) ==
    Bind(SortByRisk(route_analyses), LAMBDA sorted :
        [sorted EXCEPT ![1].is_recommended = TRUE])

\* risk_reduction_percentage is in tenths of a percent
_generate_insights(route_analyses, travel_hour) ==
    IF Len(route_analyses) < 2 THEN [message |-> "Only one route available"]
    ELSE LET safest == route_analyses[1]
             riskiest == route_analyses[Len(route_analyses)]
             of(a) == [index |-> a.route_index, summary |-> a.summary,
                       risk_score |-> a.risk_score]
             hour == IF travel_hour = <<>> THEN -1 ELSE travel_hour[1]
         IN  [safest_route |-> of(safest), riskiest_route |-> of(riskiest)]
             @@ (IF riskiest.risk_score > 0
                 THEN [risk_reduction_percentage |->
                          (2000 * (riskiest.risk_score - safest.risk_score)
                             + riskiest.risk_score) \div (2 * riskiest.risk_score)]
                 ELSE EmptyDict)
             @@ (IF travel_hour = <<>> THEN EmptyDict
                 ELSE IF 0 <= hour /\ hour <= 6
                 THEN [time_warning |-> "Late night/early morning - higher crime risk"]
                 ELSE IF 6 <= hour /\ hour <= 9
                 THEN [time_info |-> "Morning rush hour - generally safer"]
                 ELSE IF 20 <= hour /\ hour <= 24
                 THEN [time_warning |-> "Night time - increased risk"]
                 ELSE EmptyDict)

\* `now` is what datetime.now().isoformat() gives during the call
analyze_routes(maps_response, travel_hour, now) ==
    Bind(parse_maps_response(maps_response), LAMBDA routes :
        IF routes = <<>> THEN [error |-> "No routes found in the provided data"]
        ELSE Bind(SortAndRecommend([i \in DOMAIN routes |->
                                       RouteAnalysis(routes[i], travel_hour)]),
                  LAMBDA route_analyses :
                     [timestamp |-> now,
                      total_routes |-> Len(route_analyses),
                      travel_hour |-> travel_hour,
                      routes |-> route_analyses,
                      insights |-> _generate_insights(route_analyses, travel_hour),
                      recommended_route |-> route_analyses[1]]))


(***************************************************************************)
(* Inputs                                                                  *)
(***************************************************************************)
Hours == 0 .. 23

\* datetimes as (hour, weekday): hours of the night, late-night, midday and
\* evening periods, a weekday and a weekend day
TravelHours == {1, 3, 12, 19, 23}

TravelTimes == [hour : TravelHours, weekday : {2, 5}]

\* coordinates of the points queried directly
Axis == {-500, 0, 1000, 3000, 4000, 4500, 6000}

QueryPoints == Axis \X Axis

\* the standard encoding of one signed value, as bytes (character code - 63)
RECURSIVE EncodeChunks(_)
EncodeChunks(e) == IF e >= 32 THEN <<32 + (e % 32)>> \o EncodeChunks(e \div 32) ELSE <<e>>

EncodeValue(v) == EncodeChunks(IF v >= 0 THEN 2 * v ELSE -2 * v - 1)

RECURSIVE EncodeFrom(_, _, _, _)
EncodeFrom(coords, k, lat, lng) ==
    IF k > Len(coords) THEN <<>>
    ELSE EncodeValue(coords[k][1] - lat) \o EncodeValue(coords[k][2] - lng)
         \o EncodeFrom(coords, k + 1, coords[k][1], coords[k][2])

\* a provider route: its polyline, legs[0].distance.value (m), legs[0].duration.value (s)
Route(coords, distance, duration) ==
    [ overview_polyline |-> EncodeFrom(coords, 1, 0, 0),
      distance |-> distance, duration |-> duration ]

\* candidate routes, as (latitude, longitude) lists
RouteTable ==
    ( "empty"   :> Route(<<>>, 0, 0)
   @@ "single"  :> Route(<< <<1000, 3000>> >>, 0, 0)
   @@ "still"   :> Route(<< <<5000, 5000>>, <<5000, 5000>> >>, 0, 60)
   @@ "outside" :> Route(<< <<4500, 4500>>, <<4500, 5000>>, <<4800, 5400>> >>, 1100, 120)
   @@ "far"     :> Route(<< <<9000, 9000>>, <<9000, 9300>> >>, 370, 90)
   @@ "nodata"  :> Route(<< <<1000, 5000>>, <<1000, 5300>> >>, 330, 60)
   @@ "hot"     :> Route(<< <<1000, 2700>>, <<1000, 3300>> >>, 660, 120)
   @@ "calm"    :> Route(<< <<3500, 500>>, <<3500, 800>> >>, 330, 60)
   @@ "enter"   :> Route(<< <<4500, 4500>>, <<3500, 3500>> >>, 1500, 180)
   @@ "parked"  :> Route(<< <<1000, 3000>>, <<1000, 3000>> >>, 0, 60)
   @@ "mandya"  :> Route(<< <<5000, 1000>>, <<5000, 1300>> >>, 330, 60) )

Routes == { RouteTable[n] : n \in DOMAIN RouteTable }

\* route metrics handed to the grader: risks of 0, 10, 50, 100 and 200, and
\* variances whose roots are 0, 100, 200, 350, 500, 700, 900 and 1200
RiskLevels == {0, 100000, 500000, 1000000, 2000000}

VarianceLevels == { k * k : k \in {0, 100, 200, 350, 500, 700, 900, 1200} }

GradeInputs ==
    [risk_score : RiskLevels, max_segment_risk : RiskLevels, risk_variance : VarianceLevels]

\* what the routing provider answers: the standard request ...
MaxStandardRoutes == 2

ProviderRoutes == { RouteTable[n] : n \in {"empty", "still", "outside", "nodata", "hot", "calm"} }

RECURSIVE SeqsUpTo(_, _)
SeqsUpTo(S, n) ==
    IF n = 0 THEN {<<>>}
    ELSE LET shorter == SeqsUpTo(S, n - 1)
         IN  shorter \cup { Append(q, x) : q \in shorter, x \in S }

StandardResponses ==
    {ProviderError} \cup { Answer(q) : q \in SeqsUpTo(ProviderRoutes, MaxStandardRoutes) }

\* ... and the two requests with avoid=[...]
HighwayResponses ==
    {ProviderError, Answer(<<>>), Answer(<<RouteTable["far"]>>), Answer(<<RouteTable["outside"]>>)}

TollResponses ==
    {ProviderError, Answer(<<>>), Answer(<<RouteTable["hot"]>>), Answer(<<RouteTable["empty"]>>)}

RecommendTimes == { [hour |-> 12, weekday |-> 2], [hour |-> 23, weekday |-> 5] }

\* crime counts of one district: none, few, several clusters, violent crimes
\* only, and totals above 500
GeneratorRows ==
    { CrimeRow(EmptyDict),
      CrimeRow("MURDER" :> 2 @@ "THEFT" :> 6 @@ "BURGLARY-DAY" :> 4),
      CrimeRow("MURDER" :> 16 @@ "THEFT" :> 25 @@ "ROBBERY" :> 1),
      CrimeRow("MURDER" :> 3),
      CrimeRow("THEFT" :> 501),
      CrimeRow("ROBBERY" :> 3 @@ "THEFT" :> 498) }

\* grid points inside the district polygon (a 3 x 3 part of the 100 x 100 grid)
GeneratorValidPoints ==
    << <<1000, 1000>>, <<2000, 1000>>, <<3000, 1000>>,
       <<1000, 2000>>, <<2000, 2000>>, <<3000, 2000>>,
       <<1000, 3000>>, <<2000, 3000>>, <<3000, 3000>> >>

\* random outcomes of a cluster: an offset that stays in bounds and one that
\* leaves them
ClusterDraws ==
    [ center : {1, 5}, poisson : {0, 3}, offset : { <<200, -100>>, <<-3000, 0>> } ]

GeneratorDraws == { <<d1, d2>> : d1 \in ClusterDraws, d2 \in ClusterDraws }

\* most rows of a crime table
MaxRows == 2

\* the DISTRICT/UNITS cells of the rows: "Kolar Dist", "MANDYA", "Ud City",
\* "Mysuru", "Man", "a", "Kolar District", " Range" and "12"
CsvNames ==
    { <<"K", "o", "l", "a", "r", " ", "D", "i", "s", "t">>,
      <<"M", "A", "N", "D", "Y", "A">>,
      <<"U", "d", " ", "C", "i", "t", "y">>,
      <<"M", "y", "s", "u", "r", "u">>,
      <<"M", "a", "n">>,
      <<"a">>,
      <<"K", "o", "l", "a", "r", " ", "D", "i", "s", "t", "r", "i", "c", "t">>,
      <<" ", "R", "a", "n", "g", "e">>,
      <<"1", "2">> }

\* the crime cells of a row: plain counts; a negative number, a text, a
\* blank and a fraction of a hundred among counts; no crime column at all
CsvCells ==
    { [ct \in CrimeTypes |-> [kind |-> "number", value |-> 3]],
      [ct \in CrimeTypes |->
          IF ct = "MURDER" THEN [kind |-> "number", value |-> -2]
          ELSE IF ct = "THEFT" THEN [kind |-> "text", value |-> 0]
          ELSE IF ct = "RAPE" THEN [kind |-> "blank", value |-> 0]
          ELSE [kind |-> "number", value |-> 5]],
      [ct \in CrimeTypes |-> [kind |-> "absent", value |-> 0]] }

\* most scored routes handed to the sort
MaxScored == 3

\* scored routes as the sort of line 645 sees them: the key fields and the
\* index of the candidate
ScoredLists ==
    { [i \in DOMAIN q |-> [route_id |-> i - 1] @@ q[i]] :
        q \in SeqsUpTo([risk_score : {0, 100, 250}, duration : {60, 120}], MaxScored) }

\* longest string handed to the polyline decoder
MaxPolylineLen == 4

\* bytes (character code - 63) of the strings handed to the decoder: final
\* chunks 0, 1, 2 and 31, continuation chunks 32 and 63, and the characters
\* next to the alphabet of the encoding, '>' (-1) and DEL (64)
PolylineBytes == {-1, 0, 1, 2, 31, 32, 63, 64}

\* most incident points of one crime type a density field is fitted to
MaxPoints == 450

\* most incident points of one crime type in a district handed to the
\* hotspot detector
MaxIncidents == 2

\* the loaded districts with Mandya's incident lists replaced: up to
\* MaxIncidents points each of MURDER, THEFT and CYBER CRIME, at two places
HotspotInputs ==
    LET lists == SeqsUpTo({ <<5000, 1000>>, <<7000, 3000>> }, MaxIncidents)
    IN  { [LoadedDistricts EXCEPT !["Mandya"].crime_locations =
              [ct \in CrimeTypes |-> Get(nonzero, ct, <<>>)]] :
            nonzero \in { ("MURDER" :> m @@ "THEFT" :> t @@ "CYBER CRIME" :> c) :
                            m \in lists, t \in lists, c \in lists } }

\* responses handed to analyze_routes: at most MaxMapsRoutes routes
MaxMapsRoutes == 2

MapsCoord(isdict, latitude, longitude) ==
    [isdict |-> isdict, latitude |-> latitude, longitude |-> longitude]

\* a route through two crime locations, given as dictionaries; a route clear
\* of them without a summary; a route past one crime location; a route
\* without coordinates; a long route that leaves the bounds of the model
MapsRouteData ==
    { [summary |-> "Hosur Road", distance |-> "12 km", duration |-> "30 mins",
       coordinates |-> << MapsCoord(TRUE, 1297000, 7759000), MapsCoord(TRUE, 1297000, 7759300),
                          MapsCoord(TRUE, 1290000, 7760000), MapsCoord(TRUE, 1285000, 7760000) >>],
      [distance |-> "14 km", duration |-> "35 mins",
       coordinates |-> << MapsCoord(FALSE, 1310000, 7750000), MapsCoord(FALSE, 1285000, 7760000),
                          MapsCoord(FALSE, 1300000, 7770000) >>],
      [summary |-> "Outer Ring Road", distance |-> "15 km", duration |-> "28 mins",
       coordinates |-> << MapsCoord(FALSE, 1297000, 7759150), MapsCoord(FALSE, 1300000, 7765000) >>],
      [summary |-> "Unmapped", duration |-> "20 mins"],
      [summary |-> "NH 44", distance |-> "40 km", duration |-> "55 mins",
       coordinates |-> [k \in 1 .. 12 |->
                           IF k = 1 THEN MapsCoord(TRUE, 1285000, 7760100)
                           ELSE IF k = 4 THEN MapsCoord(TRUE, 1285000, 7760000)
                           ELSE MapsCoord(TRUE, 1320000 + 1000 * k, 7760000)]] }

MapsResponses ==
    { [routes |-> routes] : routes \in SeqsUpTo(MapsRouteData, MaxMapsRoutes) }
       \cup { [status |-> "ZERO_RESULTS"] }

MapsHours == { <<>>, <<3>>, <<7>>, <<14>>, <<24>> }

MapsClock == { "2025-03-01T14:05:00", "2025-03-01T23:40:00" }

(***************************************************************************)
(* State machine: the router after construction, then one call at a time.  *)
(* A call is made when no call is in progress; its result is held until    *)
(* the caller has taken it.                                                *)
(***************************************************************************)
\* callers of the jitter function: two risk evaluations and the incident
\* generator, which draws from the same module-level generator
Threads == {"eval1", "eval2", "generator"}

NotCalled == [pc |-> "idle", point |-> <<0, 0>>, value |-> 0]

\* no build in progress
BuildDone == [phase |-> "done", district |-> 0, todo |-> <<>>]

Init ==
    /\ districts = LoadedDistricts
    /\ crime_data = LoadedCrimeData
    /\ crime_stats = _analyze_crime_patterns(LoadedCrimeData, LoadedDistricts)
    /\ crime_hotspots = BuiltHotspots
    /\ op = "idle"
    /\ args = None
    /\ ret = None
    /\ rng = 0
    /\ jitter = [t \in Threads |-> NotCalled]
    /\ build = BuildDone

Snapshot == <<districts, crime_data, crime_stats, crime_hotspots>>

GetTimePeriod(hour) ==
    /\ op = "idle"
    /\ op' = "_get_time_period"
    /\ args' = [hour |-> hour]
    /\ ret' = Ok(_get_time_period(hour))
    /\ UNCHANGED <<Snapshot, rng, jitter, build>>

EvalRisk(point, datetime_obj) ==
    /\ op = "idle"
    /\ op' = "_get_enhanced_location_risk_score"
    /\ args' = [point |-> point, datetime_obj |-> datetime_obj]
    /\ ret' = _get_enhanced_location_risk_score(point, datetime_obj)
    /\ UNCHANGED <<Snapshot, rng, jitter, build>>

ScoreRoute(route, travel_datetime) ==
    /\ op = "idle"
    /\ op' = "score_route_enhanced"
    /\ args' = [route |-> route, travel_datetime |-> travel_datetime]
    /\ ret' = score_route_enhanced(route, travel_datetime)
    /\ UNCHANGED <<Snapshot, rng, jitter, build>>

Grade(route_info) ==
    /\ op = "idle"
    /\ op' = "_calculate_safety_grade"
    /\ args' = [route_info |-> route_info]
    /\ ret' = Ok(_calculate_safety_grade(route_info))
    /\ UNCHANGED <<Snapshot, rng, jitter, build>>

Recommend(standard, avoid_highways, avoid_tolls, travel_datetime, ai_ok) ==
    /\ op = "idle"
    /\ op' = "recommend_safest_route"
    /\ args' = [ standard |-> standard, avoid_highways |-> avoid_highways,
                 avoid_tolls |-> avoid_tolls, travel_datetime |-> travel_datetime,
                 ai_ok |-> ai_ok ]
    /\ ret' = Ok(recommend_safest_route(standard, avoid_highways, avoid_tolls,
                                        travel_datetime, ai_ok))
    /\ UNCHANGED <<Snapshot, rng, jitter, build>>

\* lines 449-453: one pass of the loop over the hotspots; the result is what
\* the pass adds to total_risk
HotspotProximity(point, hotspot) ==
    /\ op = "idle"
    /\ op' = "hotspot_proximity"
    /\ args' = [point |-> point, hotspot |-> hotspot]
    /\ ret' = Ok(HotspotContribution(point, hotspot))
    /\ UNCHANGED <<Snapshot, rng, jitter, build>>

LoadCrimeData(rows) ==
    /\ op = "idle"
    /\ op' = "_load_crime_data"
    /\ args' = [rows |-> rows]
    /\ ret' = Ok(_load_crime_data(rows))
    /\ UNCHANGED <<Snapshot, rng, jitter, build>>

\* line 645: scored_routes.sort(key=lambda x: (x['risk_score'], x['duration']))
SortScored(scored_routes) ==
    /\ op = "idle"
    /\ op' = "scored_routes.sort"
    /\ args' = [scored_routes |-> scored_routes]
    /\ ret' = Ok(SortRoutes(scored_routes))
    /\ UNCHANGED <<Snapshot, rng, jitter, build>>

Decode(polyline_str) ==
    /\ op = "idle"
    /\ op' = "_decode_polyline"
    /\ args' = [polyline_str |-> polyline_str]
    /\ ret' = Ok(_decode_polyline(polyline_str))
    /\ UNCHANGED <<Snapshot, rng, jitter, build>>

\* lines 226-230 for one crime type with n_points incident points
AdaptBandwidth(n_points) ==
    /\ op = "idle"
    /\ op' = "_create_enhanced_crime_heatmaps.bandwidth"
    /\ args' = [n_points |-> n_points]
    /\ ret' = Ok(Bandwidth(n_points))
    /\ UNCHANGED <<Snapshot, rng, jitter, build>>

\* the analysis run on a router with two districts, of the given crime counts
\* and polygon areas; the result is the self.crime_stats it leaves
AnalyzePatterns(data, regions) ==
    /\ op = "idle"
    /\ op' = "_analyze_crime_patterns"
    /\ args' = [crime_data |-> data, districts |-> regions]
    /\ ret' = Ok(_analyze_crime_patterns(data, regions))
    /\ UNCHANGED <<Snapshot, rng, jitter, build>>

\* the detector run on a router whose self.districts is `data`; the result is
\* the self.crime_hotspots it leaves
IdentifyHotspots(data) ==
    /\ op = "idle"
    /\ op' = "_identify_crime_hotspots"
    /\ args' = [districts |-> data]
    /\ ret' = Ok(_identify_crime_hotspots(data))
    /\ UNCHANGED <<Snapshot, rng, jitter, build>>

GenerateLocations(crimes, draws) ==
    /\ op = "idle"
    /\ op' = "_generate_synthetic_crime_locations"
    /\ args' = [crimes |-> crimes, draws |-> draws]
    /\ ret' = Ok(_generate_synthetic_crime_locations(crimes, FALSE, GeneratorValidPoints, draws))
    /\ UNCHANGED <<Snapshot, rng, jitter, build>>

AnalyzeRoutes(maps_response, travel_hour, now) ==
    /\ op = "idle"
    /\ op' = "analyze_routes"
    /\ args' = [maps_response |-> maps_response, travel_hour |-> travel_hour]
    /\ ret' = Ok(analyze_routes(maps_response, travel_hour, now))
    /\ UNCHANGED <<Snapshot, rng, jitter, build>>

\* the caller takes the result
Return ==
    /\ op # "idle"
    /\ op' = "idle"
    /\ args' = None
    /\ ret' = None
    /\ UNCHANGED <<Snapshot, rng, jitter, build>>

Next ==
    \/ \E hour \in Hours : GetTimePeriod(hour)
    \/ \E point \in QueryPoints, t \in TravelTimes : EvalRisk(point, t)
    \/ \E route \in Routes, t \in TravelTimes : ScoreRoute(route, t)
    \/ \E route_info \in GradeInputs : Grade(route_info)
    \/ \E standard \in StandardResponses, avoid_highways \in HighwayResponses,
          avoid_tolls \in TollResponses, t \in RecommendTimes, ai_ok \in BOOLEAN :
            Recommend(standard, avoid_highways, avoid_tolls, t, ai_ok)
    \/ \E crimes \in GeneratorRows, draws \in GeneratorDraws : GenerateLocations(crimes, draws)
    \/ \E kolar, mandya \in GeneratorRows, kolar_area, mandya_area \in {0, 40, 1600} :
            AnalyzePatterns("Kolar" :> kolar @@ "Mandya" :> mandya,
                            "Kolar" :> [area |-> kolar_area] @@ "Mandya" :> [area |-> mandya_area])
    \/ \E rows \in SeqsUpTo([district_raw : CsvNames, cells : CsvCells], MaxRows) :
            LoadCrimeData(rows)
    \/ \E point \in QueryPoints \cup { <<1036, 3014>>, <<1036, 3250>>, <<1100, 3100>> },
          d \in DOMAIN crime_hotspots :
            \E i \in DOMAIN crime_hotspots[d] : HotspotProximity(point, crime_hotspots[d][i])
    \/ \E scored_routes \in ScoredLists : SortScored(scored_routes)
    \/ \E polyline_str \in SeqsUpTo(PolylineBytes, MaxPolylineLen) : Decode(polyline_str)
    \/ \E n_points \in 1 .. MaxPoints : AdaptBandwidth(n_points)
    \/ \E data \in HotspotInputs : IdentifyHotspots(data)
    \/ \E maps_response \in MapsResponses, travel_hour \in MapsHours, now \in MapsClock :
            AnalyzeRoutes(maps_response, travel_hour, now)
    \/ Return

Spec == Init /\ [][Next]_vars

(***************************************************************************)
(* The jitter function under concurrent callers.  Its two statements,      *)
(* np.random.seed(seed) and np.random.uniform(0.8, 1.2), both act on the   *)
(* module-level generator of numpy, which _generate_crime_pattern draws    *)
(* from as well; a thread switch can fall between any two statements.      *)
(***************************************************************************)
EvalThreads == {"eval1", "eval2"}

\* coordinates queried concurrently
JitterPoints == { <<1000, 3000>>, <<1010, 3000>>, <<3500, 500>> }

\* a risk evaluation enters _pseudo_spatial_noise(point)
CallNoise(t, point) ==
    /\ jitter[t].pc = "idle"
    /\ jitter' = [jitter EXCEPT ![t] = [pc |-> "seed", point |-> point, value |-> 0]]
    /\ UNCHANGED <<Snapshot, op, args, ret, rng, build>>

\* np.random.seed(seed)
SeedGenerator(t) ==
    /\ jitter[t].pc = "seed"
    /\ rng' = Seeded(NoiseSeed(jitter[t].point))
    /\ jitter' = [jitter EXCEPT ![t].pc = "draw"]
    /\ UNCHANGED <<Snapshot, op, args, ret, build>>

\* return np.random.uniform(0.8, 1.2)
DrawUniform(t) ==
    /\ jitter[t].pc = "draw"
    /\ jitter' = [jitter EXCEPT ![t].pc = "done", ![t].value = RandomUniform(rng)]
    /\ rng' = Advance(rng)
    /\ UNCHANGED <<Snapshot, op, args, ret, build>>

\* one draw of the incident generator (np.random.randint, line 298)
DrawIncident ==
    /\ jitter["generator"].pc = "idle"
    /\ jitter' = [jitter EXCEPT !["generator"].pc = "done"]
    /\ rng' = Advance(rng)
    /\ UNCHANGED <<Snapshot, op, args, ret, build>>

JitterNext ==
    \/ \E t \in EvalThreads, point \in JitterPoints : CallNoise(t, point)
    \/ \E t \in EvalThreads : SeedGenerator(t)
    \/ \E t \in EvalThreads : DrawUniform(t)
    \/ DrawIncident

JitterSpec == Init /\ [][JitterNext]_vars

(***************************************************************************)
(* A build of the analysis products (lines 97-99) while risk evaluations   *)
(* run.  The three methods write self.crime_stats, the district records    *)
(* and self.crime_hotspots in place, one assignment at a time, and take no *)
(* lock; a risk evaluation can run between any two assignments.            *)
(***************************************************************************)
\* the crime types of the list, in order, that have incident locations
RECURSIVE WithLocations(_, _)
WithLocations(crime_locations, k) ==
    IF k > Len(CrimeTypeOrder) THEN <<>>
    ELSE (IF Len(crime_locations[CrimeTypeOrder[k]]) > 0
          THEN <<CrimeTypeOrder[k]>> ELSE <<>>)
         \o WithLocations(crime_locations, k + 1)

At(phase, district, todo) == [phase |-> phase, district |-> district, todo |-> todo]

\* the position after district i of a loop over the districts
AfterDistrict(phase, i, next_phase) ==
    IF i < Len(DistrictOrder) THEN At(phase, i + 1, <<>>) ELSE At(next_phase, 1, <<>>)

\* line 179: self.crime_stats = {}
StartAnalysis ==
    /\ build.phase = "done"
    /\ crime_stats' = EmptyDict
    /\ build' = At("analyze", 1, <<>>)
    /\ UNCHANGED <<districts, crime_data, crime_hotspots, op, args, ret, rng, jitter>>

\* lines 181-194: one pass of the loop, self.crime_stats[district] = {...}
AnalyzeDistrict ==
    /\ build.phase = "analyze"
    /\ LET d == DistrictOrder[build.district]
       IN  crime_stats' =
               IF d \in DOMAIN crime_data
               THEN (d :> _analyze_crime_patterns(crime_data, districts)[d]) @@ crime_stats
               ELSE crime_stats
    /\ build' = AfterDistrict("analyze", build.district, "heatmaps")
    /\ UNCHANGED <<districts, crime_data, crime_hotspots, op, args, ret, rng, jitter>>

\* lines 198-223: a district without crime data is skipped; otherwise
\* data['crime_heatmaps'] = {} and data['crime_locations'] = crime_locations
ResetHeatmaps ==
    /\ build.phase = "heatmaps"
    /\ build.todo = <<>>
    /\ LET d == DistrictOrder[build.district]
       IN  IF d \notin DOMAIN crime_data
           THEN /\ UNCHANGED districts
                /\ build' = AfterDistrict("heatmaps", build.district, "hotspots")
           ELSE LET crime_locations == LoadedDistricts[d].crime_locations
                    todo == WithLocations(crime_locations, 1)
                IN  /\ districts' =
                          [districts EXCEPT ![d] =
                              [ geometry |-> districts[d].geometry,
                                area |-> districts[d].area,
                                crime_locations |-> crime_locations,
                                crime_heatmaps |-> EmptyDict ]]
                    /\ build' = IF todo = <<>>
                                THEN AfterDistrict("heatmaps", build.district, "hotspots")
                                ELSE At("heatmaps", build.district, todo)
    /\ UNCHANGED <<crime_data, crime_stats, crime_hotspots, op, args, ret, rng, jitter>>

\* lines 226-240: data['crime_heatmaps'][crime_type] = kde
FitKDE ==
    /\ build.phase = "heatmaps"
    /\ build.todo # <<>>
    /\ LET d == DistrictOrder[build.district]
           crime_type == Head(build.todo)
       IN  /\ districts' =
                 [districts EXCEPT ![d].crime_heatmaps =
                     (crime_type :> LoadedDistricts[d].crime_heatmaps[crime_type]) @@ @]
           /\ build' = IF Len(build.todo) > 1
                       THEN At("heatmaps", build.district, Tail(build.todo))
                       ELSE AfterDistrict("heatmaps", build.district, "hotspots")
    /\ UNCHANGED <<crime_data, crime_stats, crime_hotspots, op, args, ret, rng, jitter>>

\* line 347: self.crime_hotspots = {}
ResetHotspots ==
    /\ build.phase = "hotspots"
    /\ build.todo = <<>>
    /\ crime_hotspots' = EmptyDict
    /\ build' = At("hotspots", 1, <<"loop">>)
    /\ UNCHANGED <<districts, crime_data, crime_stats, op, args, ret, rng, jitter>>

\* lines 349-392: one pass of the loop, self.crime_hotspots[district] = sorted(...)
HotspotsOfDistrict ==
    /\ build.phase = "hotspots"
    /\ build.todo # <<>>
    /\ LET d == DistrictOrder[build.district]
       IN  crime_hotspots' =
               IF d \in DOMAIN BuiltHotspots
               THEN (d :> BuiltHotspots[d]) @@ crime_hotspots
               ELSE crime_hotspots
    /\ build' = IF build.district < Len(DistrictOrder)
                THEN At("hotspots", build.district + 1, <<"loop">>)
                ELSE BuildDone
    /\ UNCHANGED <<districts, crime_data, crime_stats, op, args, ret, rng, jitter>>

\* points and times of the evaluations that run during a build
BuildQueryPoints == { <<1000, 3000>>, <<3500, 500>>, <<5000, 1000>>, <<1000, 5000>>, <<6000, 6000>> }

BuildNext ==
    \/ StartAnalysis
    \/ AnalyzeDistrict
    \/ ResetHeatmaps
    \/ FitKDE
    \/ ResetHotspots
    \/ HotspotsOfDistrict
    \/ \E point \in BuildQueryPoints, t \in TravelTimes : EvalRisk(point, t)
    \/ Return

BuildSpec == Init /\ [][BuildNext]_vars

(***************************************************************************)
(* Properties                                                              *)
(***************************************************************************)
\* the sample points score_route_enhanced evaluates on one segment
SegmentSamples(start_coord, end_coord) ==
    LET num_samples == NumSamples(SegmentLength(start_coord, end_coord))
    IN  { SamplePoint(start_coord, end_coord, j, num_samples) : j \in 0 .. num_samples - 1 }

\* ... and on a whole route
RouteSamples(route) ==
    LET coords == _decode_polyline(route.overview_polyline)
    IN  UNION { SegmentSamples(coords[i], coords[i + 1]) : i \in 1 .. Len(coords) - 1 }

\* the point lies in a region that has crime data
InCrimeDataRegion(point) ==
    LET d == ContainingDistrict(point, districts)
    IN  d # None /\ d \in DOMAIN crime_data

\* no region polygon contains the point
OutsideEveryRegion(point) ==
    \A d \in DOMAIN districts : ~Contains(districts[d].geometry, point[1], point[2])

\* C1: the Risk Evaluator never raises and returns a non-negative scalar for
\* every coordinate and timestamp, also for a coordinate inside a region that
\* has crime data.
C1_RiskNeverRaises ==
    op = "_get_enhanced_location_risk_score"
        => ret.status = "ok" /\ ret.value >= 0

\* C2: for every coordinate that no region polygon contains, and every
\* timestamp, the Risk Evaluator returns exactly 0.
C2_OutsideIsZero ==
    op = "_get_enhanced_location_risk_score" /\ OutsideEveryRegion(args.point)
        => ret = Ok(0)

\* a query on the border shared by two regions, which neither contains
C2_Witness ==
    /\ op = "_get_enhanced_location_risk_score"
    /\ args.point = <<4000, 1000>>
    /\ OutsideEveryRegion(args.point)
    /\ ret = Ok(0)

\* C3: when the risk evaluation fails at a sample point of a route, the
\* failure is caught inside score_route_enhanced and a RouteScore is still
\* returned for the route.
C3_SampleFailureCaught ==
    /\ op = "score_route_enhanced"
    /\ \E p \in RouteSamples(args.route) :
          _get_enhanced_location_risk_score(p, args.travel_datetime).status = "raised"
    => /\ ret.status = "ok"
       /\ {"total_risk", "normalized_risk", "segment_scores"} \subseteq DOMAIN ret.value

\* C4: a route whose polyline decodes to fewer than 2 coordinates yields a
\* RouteScore in which total_risk, normalized_risk, max_segment_risk and
\* risk_variance are all present and 0.
C4_DegenerateAllZero ==
    /\ op = "score_route_enhanced"
    /\ Len(_decode_polyline(args.route.overview_polyline)) < 2
    => /\ ret.status = "ok"
       /\ \A k \in {"total_risk", "normalized_risk", "max_segment_risk", "risk_variance"} :
             k \in DOMAIN ret.value /\ ret.value[k] = 0

\* the period table: 4-5 early_morning, 6-9 morning, 10-13 midday,
\* 14-17 afternoon, 18-21 evening, 22,23,0,1 night, 2-3 late_night
TablePeriod(hour) ==
    IF hour \in {4, 5} THEN "early_morning"
    ELSE IF hour \in 6 .. 9 THEN "morning"
    ELSE IF hour \in 10 .. 13 THEN "midday"
    ELSE IF hour \in 14 .. 17 THEN "afternoon"
    ELSE IF hour \in 18 .. 21 THEN "evening"
    ELSE IF hour \in {22, 23, 0, 1} THEN "night"
    ELSE "late_night"

\* C5: _get_time_period maps every hour 0..23 to the period the table names.
C5_PeriodTable ==
    op = "_get_time_period" => ret.value = TablePeriod(args.hour)

\* some crime type with a density field is present at a sample of the route
\* and has a night multiplier above its midday multiplier
NightHeavierAlong(route) ==
    \E p \in RouteSamples(route) :
        /\ InCrimeDataRegion(p)
        /\ LET heatmaps == Get(districts[ContainingDistrict(p, districts)],
                               "crime_heatmaps", EmptyDict)
           IN  \E ct \in DOMAIN heatmaps :
                  /\ Density(heatmaps[ct], p[2], p[1]) > 0
                  /\ Get(time_multipliers["night"], ct, 10)
                       > Get(time_multipliers["midday"], ct, 10)

\* C6: scoring a route at a timestamp of the night period (22:00-02:00)
\* yields a strictly higher normalized_risk than scoring it at midday of the
\* same day type, when a crime type present along the route weighs more at
\* night than at midday.
C6_NightAboveMidday ==
    /\ op = "score_route_enhanced"
    /\ TablePeriod(args.travel_datetime.hour) = "night"
    /\ NightHeavierAlong(args.route)
    => LET midday == score_route_enhanced(
                         args.route,
                         [hour |-> 12, weekday |-> args.travel_datetime.weekday])
       IN  /\ ret.status = "ok"
           /\ midday.status = "ok"
           /\ ret.value.normalized_risk > midday.value.normalized_risk

\* the route has a sample point strictly inside a hotspot of its region
ThroughHotspot(route) ==
    \E p \in RouteSamples(route) :
        /\ InCrimeDataRegion(p)
        /\ LET hotspots == Get(crime_hotspots, ContainingDistrict(p, districts), <<>>)
           IN  \E i \in DOMAIN hotspots :
                  Dist2(p[1], p[2], hotspots[i].center[1], hotspots[i].center[2])
                    < hotspots[i].radius * hotspots[i].radius

\* position of a grade in the order A+, A, B+, B, C+, C, D, F
GradeRank ==
    ( "A+" :> 1 @@ "A" :> 2 @@ "B+" :> 3 @@ "B" :> 4
   @@ "C+" :> 5 @@ "C" :> 6 @@ "D" :> 7 @@ "F" :> 8 )

\* C7: of two candidate routes of one request, scored at the same timestamp,
\* where A has sample points strictly inside a hotspot and B has none, A's
\* normalized_risk exceeds B's and A's grade is not better than B's.
C7_HotspotRouteRanksWorse ==
    op = "recommend_safest_route" =>
        LET routes == get_enhanced_route_alternatives(
                          args.standard, args.avoid_highways, args.avoid_tolls)
        IN  \A a, b \in DOMAIN routes :
               ThroughHotspot(routes[a]) /\ ~ThroughHotspot(routes[b]) =>
                  \E i, j \in DOMAIN ret.value :
                     /\ ret.value[i].route = routes[a]
                     /\ ret.value[j].route = routes[b]
                     /\ ret.value[i].risk_score > ret.value[j].risk_score
                     /\ GradeRank[ret.value[i].safety_grade]
                          >= GradeRank[ret.value[j].safety_grade]

\* c = max(5, 0.6*normalized_risk + 0.3*max_segment_risk + 0.1*sqrt(risk_variance))
\* in units of 1e-5
Composite(route_info) ==
    Max(500000, 6 * route_info.risk_score + 3 * route_info.max_segment_risk
                  + 10000 * ISqrt(route_info.risk_variance))

\* the grade bands [lo, hi) in units of 1e-5; F has no upper end
GradeBands ==
    ( "A+" :> <<-1, 1000000>>      @@ "A"  :> <<1000000, 2000000>>
   @@ "B+" :> <<2000000, 3500000>> @@ "B"  :> <<3500000, 5000000>>
   @@ "C+" :> <<5000000, 7000000>> @@ "C"  :> <<7000000, 9000000>>
   @@ "D"  :> <<9000000, 12000000>> @@ "F" :> <<12000000, -1>> )

InBand(g, c) ==
    /\ GradeBands[g][1] <= c
    /\ GradeBands[g][2] = -1 \/ c < GradeBands[g][2]

\* C8: every composite score lies in exactly one grade band, and the Safety
\* Grader returns the grade of that band: A+ below 10, A in [10,20),
\* B+ in [20,35), B in [35,50), C+ in [50,70), C in [70,90), D in [90,120),
\* F from 120 on.
C8_GradeTable ==
    op = "_calculate_safety_grade" =>
        LET c == Composite(args.route_info)
        IN  /\ Cardinality({ g \in DOMAIN GradeBands : InBand(g, c) }) = 1
            /\ ret.value \in DOMAIN GradeBands
            /\ InBand(ret.value, c)

\* a composite score of exactly 20, the lower end of B+
C8_Witness ==
    /\ op = "_calculate_safety_grade"
    /\ Composite(args.route_info) = 2000000
    /\ ret.value = "B+"

\* C9: for every route with at least 2 coordinates, the returned total_risk
\* is the sum of weighted_risk over the returned segment_scores, and each
\* segment's weighted_risk is its risk times its distance.
C9_TotalRiskAdditive ==
    /\ op = "score_route_enhanced"
    /\ ret.status = "ok"
    /\ Len(_decode_polyline(args.route.overview_polyline)) >= 2
    => LET segment_scores == ret.value.segment_scores
       IN  /\ ret.value.total_risk
                = SumSeq([i \in DOMAIN segment_scores |-> segment_scores[i].weighted_risk])
           /\ \A i \in DOMAIN segment_scores :
                 segment_scores[i].weighted_risk
                   = segment_scores[i].risk * segment_scores[i].distance

\* a scored route of two segments of positive length
C9_Witness ==
    /\ op = "score_route_enhanced"
    /\ ret.status = "ok"
    /\ Len(_decode_polyline(args.route.overview_polyline)) = 3
    /\ Len(ret.value.segment_scores) = 2
    /\ \A i \in DOMAIN ret.value.segment_scores : ret.value.segment_scores[i].distance > 0

\* sum of the returned segment lengths
TotalDistance(score_data) ==
    SumSeq([i \in DOMAIN score_data.segment_scores |-> score_data.segment_scores[i].distance])

\* C10: normalized_risk is 0 when the route's total segment length is 0 and
\* otherwise total_risk divided by the sum of the segment lengths, which is
\* non-negative; no coordinate sequence makes the call fail on a division by
\* zero.
C10_NormalizedRisk ==
    op = "score_route_enhanced" =>
        /\ ~(ret.status = "raised" /\ ret.value = "ZeroDivisionError")
        /\ ret.status = "ok" /\ Len(_decode_polyline(args.route.overview_polyline)) >= 2
           => LET total_distance == TotalDistance(ret.value)
              IN  /\ total_distance = 0 => ret.value.normalized_risk = 0
                  /\ total_distance > 0 =>
                        /\ ret.value.normalized_risk = ret.value.total_risk \div total_distance
                        /\ ret.value.normalized_risk >= 0

\* a route whose coordinates are all identical: total length 0
C10_Witness ==
    /\ op = "score_route_enhanced"
    /\ ret.status = "ok"
    /\ Len(_decode_polyline(args.route.overview_polyline)) >= 2
    /\ TotalDistance(ret.value) = 0
    /\ ret.value.normalized_risk = 0

\* C11: the jitter depends only on the coordinate: under any interleaving of
\* concurrent callers, every finished query at a coordinate holds the value
\* the function gives that coordinate when it runs alone, so two queries at
\* the same coordinate hold the same value.
C11_JitterOfCoordinateOnly ==
    \A t \in EvalThreads :
        jitter[t].pc = "done" =>
            /\ jitter[t].value = _pseudo_spatial_noise(jitter[t].point)
            /\ \A u \in EvalThreads :
                  jitter[u].pc = "done" /\ jitter[u].point = jitter[t].point
                      => jitter[u].value = jitter[t].value

\* the analysis products are those of a finished build
CompleteSnapshot ==
    /\ districts = LoadedDistricts
    /\ crime_stats = _analyze_crime_patterns(LoadedCrimeData, LoadedDistricts)
    /\ crime_hotspots = BuiltHotspots

\* C12: a risk evaluation that runs while the analysis products are built or
\* rebuilt sees a complete snapshot, never a partially built one.
C12_NoPartialSnapshot ==
    op = "_get_enhanced_location_risk_score" => CompleteSnapshot

\* C13: for every crime type, the incident list the generator produces is
\* empty when the crime count is 0 and has at most count points otherwise.
C13_IncidentsWithinCount ==
    op = "_generate_synthetic_crime_locations" =>
        \A ct \in DOMAIN args.crimes :
            /\ args.crimes[ct] = 0 => ret.value[ct] = <<>>
            /\ args.crimes[ct] > 0 => Len(ret.value[ct]) <= args.crimes[ct]

\* number of incident points of a region, over all crime types
PooledCount(region) ==
    IF "crime_locations" \in DOMAIN region
    THEN SumOver([ct \in DOMAIN region.crime_locations |-> Len(region.crime_locations[ct])],
                 DOMAIN region.crime_locations)
    ELSE 0

\* C14: after hotspot detection, a region with fewer than 5 pooled incident
\* points has no hotspot: the list the risk evaluator reads for it is empty.
C14_NoHotspotBelowFive ==
    op = "_identify_crime_hotspots" =>
        \A d \in DOMAIN args.districts :
            PooledCount(args.districts[d]) < 5 => Get(ret.value, d, <<>>) = <<>>

\* detection ran on a region with 4 incident points, two of them murders at
\* one place, next to a region that got a hotspot
C14_Witness ==
    /\ op = "_identify_crime_hotspots"
    /\ PooledCount(args.districts["Mandya"]) = 4
    /\ Len(args.districts["Mandya"].crime_locations["MURDER"]) = 2
    /\ args.districts["Mandya"].crime_locations["MURDER"][1]
         = args.districts["Mandya"].crime_locations["MURDER"][2]
    /\ "Mandya" \notin DOMAIN ret.value
    /\ Get(ret.value, "Kolar", <<>>) # <<>>

\* C15: for every region with crime data, violence_ratio lies in [0, 1] (per
\* mille: 0 .. 1000) and crime_rate is at least 0, also when the region's
\* total crime count is 0 or its area is 0.
C15_RatioAndRateInRange ==
    op = "_analyze_crime_patterns" =>
        \A d \in DOMAIN args.crime_data :
            /\ d \in DOMAIN ret.value
            /\ ret.value[d].violence_ratio >= 0
            /\ ret.value[d].violence_ratio <= 1000
            /\ ret.value[d].crime_rate >= 0

\* the analysis ran on a region without crimes and on a region of area 0
\* whose crimes are all violent
C15_Witness ==
    /\ op = "_analyze_crime_patterns"
    /\ \A ct \in CrimeTypes : args.crime_data["Kolar"][ct] = 0
    /\ ret.value["Kolar"].violence_ratio = 0
    /\ args.districts["Mandya"].area = 0
    /\ args.crime_data["Mandya"]["MURDER"] = 3
    /\ ret.value["Mandya"].violence_ratio = 1000
    /\ ret.value["Mandya"].crime_rate = 0

\* C16: the adaptive KDE bandwidth lies in [0.005, 0.02], is 0.02 for at most
\* 25 points and 0.005 for 400 points or more, and does not increase when
\* the point count grows by one.
C16_BandwidthClampedMonotone ==
    op = "_create_enhanced_crime_heatmaps.bandwidth" =>
        /\ ret.value >= 500
        /\ ret.value <= 2000
        /\ args.n_points <= 25 => ret.value = 2000
        /\ args.n_points >= 400 => ret.value = 500
        /\ args.n_points > 1 => ret.value <= Bandwidth(args.n_points - 1)

\* a bandwidth strictly between the clamps, below that of one point fewer
C16_Witness ==
    /\ op = "_create_enhanced_crime_heatmaps.bandwidth"
    /\ ret.value > 500
    /\ ret.value < 2000
    /\ ret.value < Bandwidth(args.n_points - 1)

\* an encoded polyline: characters of the encoding, whole values, two per
\* point, none with a zero chunk at its high end
EncodedPolyline(str) ==
    /\ \A i \in DOMAIN str : str[i] \in 0 .. 63
    /\ str # <<>> => str[Len(str)] < 32
    /\ Cardinality({ i \in DOMAIN str : str[i] < 32 }) % 2 = 0
    /\ \A i \in DOMAIN str : (str[i] = 0 /\ i > 1) => str[i - 1] < 32

\* C17: decoding an encoded polyline with _decode_polyline and encoding the
\* coordinates again, as signed deltas at 5 decimals, gives the same string.
C17_DecodeEncodeRoundTrip ==
    (op = "_decode_polyline" /\ EncodedPolyline(args.polyline_str)) =>
        EncodeFrom(ret.value, 1, 0, 0) = args.polyline_str

\* a polyline of two points whose second point lies below the first
C17_Witness ==
    /\ op = "_decode_polyline"
    /\ EncodedPolyline(args.polyline_str)
    /\ Len(ret.value) = 2
    /\ ret.value[2][1] < ret.value[1][1]

\* non-decreasing risk_score, equal risk_scores in non-decreasing duration
RiskOrdered(q) ==
    \A i, j \in DOMAIN q :
        i < j => \/ q[i].risk_score < q[j].risk_score
                 \/ /\ q[i].risk_score = q[j].risk_score
                    /\ q[i].duration <= q[j].duration

\* q holds the elements of r, each as often
SameRoutes(q, r) ==
    /\ Len(q) = Len(r)
    /\ \A x \in { r[i] : i \in DOMAIN r } :
          Cardinality({ i \in DOMAIN q : q[i] = x }) = Cardinality({ i \in DOMAIN r : r[i] = x })

\* C18: the routes recommend_safest_route returns are the successfully scored
\* candidates in non-decreasing risk_score, ties in non-decreasing duration;
\* the first has the least risk_score of them.  The same holds of the sort
\* the method applies, on scored routes of differing risk.
C18_SortedByRiskThenDuration ==
    /\ op = "recommend_safest_route" =>
          LET scored_routes ==
                  ScoreAll(get_enhanced_route_alternatives(
                               args.standard, args.avoid_highways, args.avoid_tolls),
                           1, args.travel_datetime, <<>>)
          IN  /\ RiskOrdered(ret.value)
              /\ Len(ret.value) = Len(scored_routes)
              /\ \A i \in DOMAIN scored_routes :
                    /\ \E j \in DOMAIN ret.value : ret.value[j].route_id = scored_routes[i].route_id
                    /\ ret.value[1].risk_score <= scored_routes[i].risk_score
    /\ op = "scored_routes.sort" =>
          /\ RiskOrdered(ret.value)
          /\ SameRoutes(ret.value, args.scored_routes)
          /\ \A i \in DOMAIN args.scored_routes :
                ret.value[1].risk_score <= args.scored_routes[i].risk_score

\* three scored routes were put in another order: the last had the least
\* risk, the first two the same risk and the longer duration first
C18_Witness ==
    /\ op = "scored_routes.sort"
    /\ Len(args.scored_routes) = 3
    /\ args.scored_routes[3].risk_score < args.scored_routes[1].risk_score
    /\ args.scored_routes[1].risk_score = args.scored_routes[2].risk_score
    /\ args.scored_routes[1].duration > args.scored_routes[2].duration
    /\ ret.value = << args.scored_routes[3], args.scored_routes[2], args.scored_routes[1] >>

\* the request with this preference brought no candidate
NoCandidates(response) == ~response.ok \/ response.routes = <<>>

\* C19: when the first provider request fails, or no request brings a
\* candidate, recommend_safest_route returns the empty list and does not
\* raise.
C19_NoCandidatesGiveEmptyList ==
    ( /\ op = "recommend_safest_route"
      /\ \/ ~args.standard.ok
         \/ /\ args.standard.routes = <<>>
            /\ NoCandidates(args.avoid_highways)
            /\ NoCandidates(args.avoid_tolls) )
        => ret = Ok(<<>>)

\* the first request failed where a later one would have brought a route
C19_Witness ==
    /\ op = "recommend_safest_route"
    /\ ~args.standard.ok
    /\ args.avoid_highways.ok
    /\ args.avoid_highways.routes # <<>>
    /\ ret = Ok(<<>>)

\* the fallback text of a route, from its grade, rank, risk score (1e-4),
\* distance (m), duration (s) and time period: the first route's names the
\* grade word, the period, the risk to one decimal, the kilometres to one
\* decimal and the whole minutes; the others' names the rank in place of the
\* kilometres
FallbackText(safety_grade, rank, risk_score, distance, duration, time_period) ==
    LET words == ( "A+" :> "excellent" @@ "A" :> "very good" @@ "B+" :> "good"
                @@ "B" :> "acceptable" @@ "C+" :> "fair" @@ "C" :> "concerning"
                @@ "D" :> "poor" @@ "F" :> "high risk" )
        common == [ grade_desc |-> words[safety_grade],
                    time_period |-> time_period,
                    risk_score |-> (risk_score + 500) \div 1000,
                    duration |-> (duration + 30) \div 60 ]
    IN  IF rank = 1
        THEN common @@ [template |-> "recommended", rank |-> 1,
                        distance |-> (distance + 50) \div 100]
        ELSE common @@ [template |-> "alternative", rank |-> rank, distance |-> 0]

\* C20: every route recommend_safest_route returns has an ai_explanation, and
\* when the explanation service raises it is the templated fallback text, a
\* function of the route's grade, rank, risk score, distance, duration and
\* time period.
C20_FallbackExplanation ==
    op = "recommend_safest_route" =>
        \A i \in DOMAIN ret.value :
            /\ "ai_explanation" \in DOMAIN ret.value[i]
            /\ ~args.ai_ok =>
                  ret.value[i].ai_explanation =
                      FallbackText(ret.value[i].safety_grade, i, ret.value[i].risk_score,
                                   ret.value[i].distance, ret.value[i].duration,
                                   ret.value[i].time_period)

\* the service raised for a recommendation of at least two routes, the first
\* of them over a distance that is not a whole number of 100 m
C20_Witness ==
    /\ op = "recommend_safest_route"
    /\ ~args.ai_ok
    /\ Len(ret.value) >= 2
    /\ ret.value[1].distance % 100 >= 50
    /\ ret.value[1].ai_explanation.template = "recommended"
    /\ ret.value[2].ai_explanation.template = "alternative"

\* the region a row of the given name belongs to: the first region, in the
\* order Kolar, Mandya, Udupi, whose name holds the cleaned name or is held
\* by it, whatever the case; "" for none.  " Range" cleans to the empty
\* name and "12" is a number: such rows are skipped as headers.
RegionOfName ==
    ( <<"K", "o", "l", "a", "r", " ", "D", "i", "s", "t">> :> "Kolar"
   @@ <<"M", "A", "N", "D", "Y", "A">> :> "Mandya"
   @@ <<"U", "d", " ", "C", "i", "t", "y">> :> "Udupi"
   @@ <<"M", "y", "s", "u", "r", "u">> :> ""
   @@ <<"M", "a", "n">> :> "Mandya"
   @@ <<"a">> :> "Kolar"
   @@ <<"K", "o", "l", "a", "r", " ", "D", "i", "s", "t", "r", "i", "c", "t">> :> "Kolar"
   @@ <<" ", "R", "a", "n", "g", "e">> :> ""
   @@ <<"1", "2">> :> "" )

\* C21: a row of the crime table is attached to the first region whose name
\* holds its cleaned name or is held by it, case-insensitively: the regions
\* with a record are those of the rows, each with the counts of a row that
\* belongs to it.  A row matching no region leaves no record; the load does
\* not raise.
C21_FirstMatchingRegion ==
    op = "_load_crime_data" =>
        /\ ret.status = "ok"
        /\ DOMAIN ret.value =
              { RegionOfName[args.rows[k].district_raw] : k \in DOMAIN args.rows } \ {""}
        /\ \A d \in DOMAIN ret.value :
              \E k \in DOMAIN args.rows :
                 /\ RegionOfName[args.rows[k].district_raw] = d
                 /\ \A ct \in CrimeTypes :
                       args.rows[k].cells[ct].kind = "number" /\ args.rows[k].cells[ct].value >= 0
                           => ret.value[d][ct] = args.rows[k].cells[ct].value

\* a row that fits two regions went to the first, a row fitting none was
\* dropped
C21_Witness ==
    /\ op = "_load_crime_data"
    /\ Len(args.rows) = 2
    /\ args.rows[1].district_raw = <<"a">>
    /\ args.rows[2].district_raw = <<"M", "y", "s", "u", "r", "u">>
    /\ DOMAIN ret.value = {"Kolar"}
    /\ ret.value["Kolar"]["THEFT"] = 3

\* C22: every stored count is at least 0, a cell that is missing, no number
\* or negative is stored as 0, and every matched region has an entry for
\* every crime type of the weight table.
C22_CountsNonNegative ==
    op = "_load_crime_data" =>
        \A d \in DOMAIN ret.value :
            /\ DOMAIN ret.value[d] = DOMAIN crime_weights
            /\ \A ct \in DOMAIN crime_weights :
                  /\ ret.value[d][ct] >= 0
                  /\ \E k \in DOMAIN args.rows :
                        LET cell == args.rows[k].cells[ct]
                        IN  IF cell.kind = "number" /\ cell.value >= 0
                            THEN ret.value[d][ct] = cell.value
                            ELSE ret.value[d][ct] = 0

\* a region loaded from a row with a negative count, a text and a blank
C22_Witness ==
    /\ op = "_load_crime_data"
    /\ Len(args.rows) = 1
    /\ args.rows[1].cells["MURDER"].value = -2
    /\ args.rows[1].cells["THEFT"].kind = "text"
    /\ args.rows[1].cells["RAPE"].kind = "blank"
    /\ "Mandya" \in DOMAIN ret.value
    /\ ret.value["Mandya"]["MURDER"] = 0
    /\ ret.value["Mandya"]["THEFT"] = 0
    /\ ret.value["Mandya"]["RAPE"] = 0
    /\ ret.value["Mandya"]["ROBBERY"] = 5

\* C23: for a coordinate inside a region that has crime data the Risk
\* Evaluator returns a strictly positive value, never exactly zero.
C23_PositiveInsideCrimeRegion ==
    op = "_get_enhanced_location_risk_score" /\ InCrimeDataRegion(args.point)
        => ret.status = "ok" /\ ret.value > 0

\* the weight, in tenths, of the incident points of Mandya at one place: a
\* murder counts 10.0, a theft 3.0, a cyber crime 1.5
PlaceWeight(crime_locations, place) ==
    100 * Cardinality({ i \in DOMAIN crime_locations["MURDER"] :
                          crime_locations["MURDER"][i] = place })
    + 30 * Cardinality({ i \in DOMAIN crime_locations["THEFT"] :
                          crime_locations["THEFT"][i] = place })
    + 15 * Cardinality({ i \in DOMAIN crime_locations["CYBER CRIME"] :
                          crime_locations["CYBER CRIME"][i] = place })

\* C24: every region's hotspot list is in non-increasing intensity, every
\* hotspot has radius >= 0 and intensity > 0, and no hotspot holds a noise
\* point.  The incident points of Mandya lie at places far from each other,
\* so those at a place of weight below 3.0 are noise: the intensities of
\* Mandya's hotspots add up to the weight of the other places.
C24_HotspotsOrderedNoNoise ==
    op = "_identify_crime_hotspots" =>
        /\ \A d \in DOMAIN ret.value :
              /\ \A i, j \in DOMAIN ret.value[d] :
                    i < j => ret.value[d][i].intensity >= ret.value[d][j].intensity
              /\ \A i \in DOMAIN ret.value[d] :
                    /\ ret.value[d][i].radius >= 0
                    /\ ret.value[d][i].intensity > 0
                    /\ ret.value[d][i].crime_count > 0
        /\ "Mandya" \in DOMAIN ret.value =>
              LET crime_locations == args.districts["Mandya"].crime_locations
                  places == { <<5000, 1000>>, <<7000, 3000>> }
                  dense == { p \in places : PlaceWeight(crime_locations, p) >= 30 }
              IN  /\ Len(ret.value["Mandya"]) = Cardinality(dense)
                  /\ \A p \in dense :
                        \E i \in DOMAIN ret.value["Mandya"] :
                           /\ ret.value["Mandya"][i].center = p
                           /\ ret.value["Mandya"][i].intensity = PlaceWeight(crime_locations, p)
                           /\ ret.value["Mandya"][i].radius = 0

\* Mandya got one hotspot although one of its points, a lone cyber crime,
\* lies elsewhere, and Kolar's hotspots differ in intensity
C24_Witness ==
    /\ op = "_identify_crime_hotspots"
    /\ "Mandya" \in DOMAIN ret.value
    /\ Len(ret.value["Mandya"]) = 1
    /\ PlaceWeight(args.districts["Mandya"].crime_locations, <<7000, 3000>>) = 15
    /\ Len(ret.value["Kolar"]) = 2
    /\ ret.value["Kolar"][1].intensity > ret.value["Kolar"][2].intensity

\* C25: a hotspot adds to the risk only when the coordinate is nearer to its
\* centre than its radius; what it adds is above 0 and at most 0.1 *
\* intensity, which it is at the centre; a hotspot of radius 0 adds nothing,
\* also at its centre, and nothing is divided by 0.
C25_ProximityContribution ==
    op = "hotspot_proximity" =>
        LET hotspot == args.hotspot
            dx == args.point[1] - hotspot.center[1]
            dy == args.point[2] - hotspot.center[2]
        IN  /\ ret.status = "ok"
            /\ dx * dx + dy * dy >= hotspot.radius * hotspot.radius => ret.value = 0
            /\ dx * dx + dy * dy < hotspot.radius * hotspot.radius =>
                  /\ ret.value > 0
                  /\ ret.value <= 100 * hotspot.intensity
            /\ (dx = 0 /\ dy = 0 /\ hotspot.radius > 0) => ret.value = 100 * hotspot.intensity

\* the hotspot of radius 0, asked at its own centre
C25_Witness ==
    /\ op = "hotspot_proximity"
    /\ args.hotspot.radius = 0
    /\ args.hotspot.crime_count = 1
    /\ args.point = args.hotspot.center
    /\ ret = Ok(0)

\* C26: one risk evaluation reads its coordinate (latitude, longitude) in one
\* (longitude, latitude) frame throughout: the region its containment test
\* finds is the region that holds x = longitude, y = latitude, where the
\* density query is made, so a coordinate that lies in a region with crime
\* data is not answered with the 0 of a coordinate outside the crime data.
C26_OneAxisOrder ==
    op = "_get_enhanced_location_risk_score" =>
        LET region == FirstContaining(<<args.point[2], args.point[1]>>, districts, 1)
        IN  /\ ContainingDistrict(args.point, districts) = region
            /\ (region # None /\ region \in DOMAIN crime_data)
                  => ~(ret.status = "ok" /\ ret.value = 0)

\* the candidates of the request whose scoring and grading do not raise, by
\* provider index
ScoredIndices ==
    LET routes == get_enhanced_route_alternatives(
                      args.standard, args.avoid_highways, args.avoid_tolls)
    IN  { k \in DOMAIN routes :
            ScoreCandidate(k - 1, routes[k], args.travel_datetime).status = "ok" }

\* C27: a candidate whose scoring or grading raises is the only one left out:
\* every candidate that scores appears in the result exactly once, under
\* its provider index as route_id, and the result is empty only if no
\* candidate scored.
C27_FailureRemovesOnlyThatCandidate ==
    op = "recommend_safest_route" =>
        LET routes == get_enhanced_route_alternatives(
                          args.standard, args.avoid_highways, args.avoid_tolls)
        IN  /\ ret.status = "ok"
            /\ Len(ret.value) = Cardinality(ScoredIndices)
            /\ \A k \in ScoredIndices :
                  \E i \in DOMAIN ret.value :
                     /\ ret.value[i].route_id = k - 1
                     /\ ret.value[i].route = routes[k]
                     /\ \A j \in DOMAIN ret.value : ret.value[j].route_id = k - 1 => j = i

\* of three candidates the second raised and the first and third are returned
C27_Witness ==
    /\ op = "recommend_safest_route"
    /\ Len(get_enhanced_route_alternatives(
               args.standard, args.avoid_highways, args.avoid_tolls)) = 3
    /\ ScoredIndices = {1, 3}
    /\ { ret.value[i].route_id : i \in DOMAIN ret.value } = {0, 2}

MetricsLeq(x, y) ==
    /\ x.risk_score <= y.risk_score
    /\ x.max_segment_risk <= y.max_segment_risk
    /\ x.risk_variance <= y.risk_variance

\* C29: the safety grade is monotone in the route metrics: a route whose
\* normalized_risk, max_segment_risk and risk_variance are each less than or
\* equal to those of another route has a grade that is not worse than the
\* other's in the order A+, A, B+, B, C+, C, D, F.
C29_GradeMonotone ==
    op = "_calculate_safety_grade" =>
        \A other \in GradeInputs :
           /\ MetricsLeq(args.route_info, other)
                 => GradeRank[ret.value] <= GradeRank[_calculate_safety_grade(other)]
           /\ MetricsLeq(other, args.route_info)
                 => GradeRank[_calculate_safety_grade(other)] <= GradeRank[ret.value]

\* a route graded B, below a route with a larger variance only that is
\* graded C+, and above a route with a smaller risk only that is graded B+
C29_Witness ==
    /\ op = "_calculate_safety_grade"
    /\ ret.value = "B"
    /\ \E other \in GradeInputs :
          /\ MetricsLeq(args.route_info, other)
          /\ other.risk_score = args.route_info.risk_score
          /\ other.max_segment_risk = args.route_info.max_segment_risk
          /\ _calculate_safety_grade(other) = "C+"
    /\ \E other \in GradeInputs :
          /\ MetricsLeq(other, args.route_info)
          /\ other.risk_variance = args.route_info.risk_variance
          /\ other.max_segment_risk = args.route_info.max_segment_risk
          /\ _calculate_safety_grade(other) = "B+"

\* C30: analyze_routes, given at least one route, returns the routes sorted
\* by non-decreasing risk_score, every route of the response once, with
\* exactly one route flagged is_recommended, that route being the first of
\* the sorted list and the one reported as recommended_route; given no
\* routes it returns an error object instead.
C30_SortedOneRecommended ==
    op = "analyze_routes" =>
        LET given == Get(args.maps_response, "routes", <<>>)
        IN  /\ ret.status = "ok"
            /\ given = <<>> => DOMAIN ret.value = {"error"}
            /\ given # <<>> =>
                  LET routes == ret.value.routes
                  IN  /\ "error" \notin DOMAIN ret.value
                      /\ ret.value.total_routes = Len(given)
                      /\ Len(routes) = Len(given)
                      /\ { routes[i].route_index : i \in DOMAIN routes }
                            = 0 .. Len(given) - 1
                      /\ \A i, j \in DOMAIN routes :
                            i < j => routes[i].risk_score <= routes[j].risk_score
                      /\ { i \in DOMAIN routes : routes[i].is_recommended } = {1}
                      /\ ret.value.recommended_route = routes[1]

\* two routes of which the second of the response is the safer one, so that
\* the sort has moved it to the front
C30_Witness ==
    /\ op = "analyze_routes"
    /\ "routes" \in DOMAIN args.maps_response
    /\ Len(args.maps_response.routes) = 2
    /\ ret.status = "ok"
    /\ ret.value.routes[1].route_index = 1
    /\ ret.value.routes[1].risk_score < ret.value.routes[2].risk_score
    /\ ret.value.recommended_route.is_recommended

\* a response without routes
C30_WitnessNoRoutes ==
    /\ op = "analyze_routes"
    /\ "routes" \notin DOMAIN args.maps_response
    /\ DOMAIN ret.value = {"error"}

====
